---- MODULE Spec2Model ----
(***************************************************************************)
(* koishi-plugin-monetary-bourse: the periodic market tick, the macro      *)
(* regulation cycle, the price clamp and the delayed-settlement queue of   *)
(* src/src/index.ts (the 2.0.2 implementation, apply() at line 1376).      *)
(*                                                                         *)
(* Units.  Money and prices are integers in cents (the code rounds them    *)
(* with toFixed(2)).  Price limits and macro targets are kept in P4 units  *)
(* (1/10000 of the currency, 100 P4 = 1 cent), which represents            *)
(* basePrice * 0.5 / 0.7 / 1.3 / 1.5 exactly.  Time is in milliseconds;    *)
(* instant 0 is a Sunday 00:00 local time.                                 *)
(*                                                                         *)
(* Asynchrony.  Every handler is an async function; it can be interleaved  *)
(* with other handlers at each awaited database operation.  A process      *)
(* position pc[p] names the database operation the process is waiting on;  *)
(* one step performs that operation and the synchronous code that follows  *)
(* it, up to the next awaited database operation.                          *)
(***************************************************************************)
EXTENDS Integers, Sequences, FiniteSets, TLC

\* ---------------------------------------------------------------- bounds
MaxOrders == 3      \* orders ever created in one run
MaxShares == 2      \* share counts a user may ask for: 1..MaxShares
MaxClock == 2      \* number of 2-minute clock steps in one run
MaxCash == 3      \* initial cash, in units of the initial share price
NearLimit == 2      \* pre-clamp prices are tried up to this many mills around each limit
MaxCrash == 1      \* number of times the process stops and restarts in one run
MaxBuckets == 3      \* demand rows of the bank account, where a run has one

\* ------------------------------------------------------- program constants
MinuteMs == 60000
HourMs == 3600000
DayMs == 86400000
TickMs == 120000
WeekHours == 168
MarketStateHours == 24
DefaultControlHours == 24
PriceFloor == 100

Users == {"u1", "u2"}
Ticks == {"t1", "t2"}
Handlers == {"h1", "h2"}
Admins == {"a1"}
Callers == {"m1"}
Procs == Ticks \cup Handlers \cup Admins \cup Callers

Min(a, b) == IF a < b THEN a ELSE b
Max(a, b) == IF a > b THEN a ELSE b

\* Number(x.toFixed(2)) of the non-negative rational num/den cents: the nearest
\* integer; an exact half is a decimal the double cannot hold exactly, so either
\* neighbour can come out.
ToFixed2(num, den) ==
  LET q == num \div den
      r == num % den
  IN  IF 2 * r < den THEN {q}
      ELSE IF 2 * r > den THEN {q + 1}
      ELSE {q, q + 1}

\* ------------------------------------------------------------ configuration
\* freezeCostPerMinute is in currency units, the freeze times in minutes,
\* initialPrice in P4 units, maxHoldings in shares (the schema asks for >= 1);
\* enableDebug opens the bourse.test.* commands.
CfgNoFreeze ==
  [initialPrice |-> 1200 * 10000, marketStatus |-> "open", openHour |-> 8, closeHour |-> 23,
   freezeCostPerMinute |-> 100, minFreezeTime |-> 0, maxFreezeTime |-> 0,
   maxHoldings |-> 2, enableDebug |-> FALSE]
CfgFreeze ==
  [initialPrice |-> 1200 * 10000, marketStatus |-> "auto", openHour |-> 8, closeHour |-> 23,
   freezeCostPerMinute |-> 600, minFreezeTime |-> 2, maxFreezeTime |-> 3,
   maxHoldings |-> 100000, enableDebug |-> FALSE]
\* a notional of one share is raised to minFreezeTime, of two shares lies between
CfgWide ==
  [initialPrice |-> 1200 * 10000, marketStatus |-> "auto", openHour |-> 8, closeHour |-> 23,
   freezeCostPerMinute |-> 400, minFreezeTime |-> 4, maxFreezeTime |-> 7,
   maxHoldings |-> 100000, enableDebug |-> FALSE]
\* the schema asks only for minFreezeTime >= 0 and maxFreezeTime >= 0
CfgMinOverMax ==
  [initialPrice |-> 1200 * 10000, marketStatus |-> "auto", openHour |-> 8, closeHour |-> 23,
   freezeCostPerMinute |-> 600, minFreezeTime |-> 5, maxFreezeTime |-> 3,
   maxHoldings |-> 100000, enableDebug |-> FALSE]
\* a freezeCostPerMinute that does not divide the notional into whole milliseconds
CfgOdd ==
  [initialPrice |-> 1200 * 10000, marketStatus |-> "auto", openHour |-> 8, closeHour |-> 23,
   freezeCostPerMinute |-> 11, minFreezeTime |-> 0, maxFreezeTime |-> 1440,
   maxHoldings |-> 100000, enableDebug |-> FALSE]
\* initialPrice 0.30 with the market forced open: the market never goes from
\* closed to open again after the first tick
CfgSubFloorOpen ==
  [initialPrice |-> 3000, marketStatus |-> "open", openHour |-> 8, closeHour |-> 23,
   freezeCostPerMinute |-> 1, minFreezeTime |-> 2, maxFreezeTime |-> 4,
   maxHoldings |-> 100000, enableDebug |-> FALSE]
\* the market is forced shut by the configuration
CfgClosed ==
  [initialPrice |-> 1200 * 10000, marketStatus |-> "close", openHour |-> 8, closeHour |-> 23,
   freezeCostPerMinute |-> 600, minFreezeTime |-> 2, maxFreezeTime |-> 3,
   maxHoldings |-> 100000, enableDebug |-> FALSE]
CfgPenny ==
  [initialPrice |-> 14900, marketStatus |-> "auto", openHour |-> 8, closeHour |-> 23,
   freezeCostPerMinute |-> 1, minFreezeTime |-> 2, maxFreezeTime |-> 4,
   maxHoldings |-> 100000, enableDebug |-> FALSE]
CfgSubFloor ==
  [initialPrice |-> 3000, marketStatus |-> "auto", openHour |-> 8, closeHour |-> 23,
   freezeCostPerMinute |-> 1, minFreezeTime |-> 2, maxFreezeTime |-> 4,
   maxHoldings |-> 100000, enableDebug |-> FALSE]

\* the development test commands are switched on
CfgDebug ==
  [initialPrice |-> 14900, marketStatus |-> "auto", openHour |-> 8, closeHour |-> 23,
   freezeCostPerMinute |-> 1, minFreezeTime |-> 2, maxFreezeTime |-> 4,
   maxHoldings |-> 100000, enableDebug |-> TRUE]

VARIABLES
  config,           \* the plugin configuration, fixed for a run
  patternRandom,    \* the values Math.random() returns to the pattern code in this run,
                    \*   in hundredths (0 .. 99), fixed for a run
  now,              \* the system clock, ms
  currentPrice,     \* let currentPrice (cents)
  wasMarketOpen,    \* let wasMarketOpen
  dailyOpenPrice,   \* let dailyOpenPrice: {} is null, {p} a price in cents
  testNow,          \* let __testNow: {} is null, {t} a virtual time
  currentPattern,   \* let currentPattern: the id of the active K-line pattern
  lastPatternSwitchTime,  \* let lastPatternSwitchTime
  nextPatternSwitchTime,  \* let nextPatternSwitchTime
  bourse_state,     \* table bourse_state: at most the row with key 'macro_state'
  bourse_pending,   \* table bourse_pending: set of rows
  bourse_holding,   \* table bourse_holding: userId -> row, a missing key is a missing row
  bourse_history,   \* table bourse_history: the price of the latest row
  monetary,         \* table monetary: uid -> value (cents)
  monetary_bank_int,\* table monetary_bank_int: the demand rows [id, uid, amount (cents)],
                    \*   ordered by settlementDate = by id
  nextId,           \* auto-increment id of bourse_pending
  clockSteps,       \* how many times the clock has advanced
  timerDue,         \* the 2-minute interval timer has fired and its callback has not started
  crashes,          \* how many times the process has stopped and restarted
  pc,               \* position of every running handler
  loc,              \* local variables of every running handler
  settled,          \* history: order id -> how many times its effect was applied
  removed,          \* history: ids of the orders deleted from bourse_pending
  sharesIn,         \* history: user -> shares delivered by settled buys
  sharesOut,        \* history: user -> shares of accepted sell orders
  cashHist,         \* history: user -> [ordered: cost of the buy orders created,
                    \*                   credited: proceeds credited by settled sells,
                    \*                   bought: shares of the buy orders created]
  pptRun,           \* history: "none" once the clock moved or an order was placed; else how the
                    \*          last completed processPendingTransactions went: "settled" (it settled
                    \*          orders), "empty" (it found none), "repeat" (it found none and follows
                    \*          a call that settled orders)
  cyclePrice,       \* history: currentPrice when the cycle now in bourse_state was made up
  rolled,           \* history: mode of the expired cycle the last tick replaced ("" when none)
  tickBase,         \* history: <<basePrice, dayBase>> (P4) of the last price update, <<>> before it
  switchClock       \* history: what the clock of the code that last switched the pattern read
                    \*          (the system clock, or the virtual clock of a price update)

patternVars == <<currentPattern, lastPatternSwitchTime, nextPatternSwitchTime, switchClock>>
engineVars == <<currentPrice, wasMarketOpen, dailyOpenPrice, testNow, patternVars>>
dbVars == <<bourse_state, bourse_pending, bourse_holding, bourse_history, monetary,
           monetary_bank_int, nextId>>
procVars == <<pc, loc>>
orderHist == <<settled, removed, sharesIn, sharesOut, cashHist, pptRun>>
priceHist == <<cyclePrice, rolled, tickBase>>
histVars == <<orderHist, priceHist>>
envVars == <<config, patternRandom, now, clockSteps, timerDue, crashes>>
vars == <<envVars, engineVars, dbVars, procVars, histVars>>

NoRow == [id |-> 0, userId |-> "", type |-> "", amount |-> 0, price |-> 0, cost |-> 0,
          startTime |-> 0, endTime |-> 0]
LocInit == [userId |-> "", type |-> "", amount |-> 0, cost |-> 0, freezeMs |-> 0,
            freezeZero |-> FALSE, newValue |-> 0, row |-> NoRow, pending |-> <<>>,
            holding |-> {}, newState |-> {}, isNew |-> FALSE, tnow |-> 0,
            status |-> "", wasOpen |-> FALSE, seenPrice |-> 0, price |-> 0,
            currentAmount |-> 0, existingTotalCost |-> 0, avgCostPerShare |-> 0,
            soldCost |-> 0, profit |-> 0, profitPercent |-> 0,
            cashDeduct |-> 0, remaining |-> 0, records |-> <<>>,
            arg |-> 0, reply |-> "", ticks |-> 0, stepMs |-> 0]

StartNow == DayMs + 9 * HourMs   \* a Monday, 09:00

EmptyTable == [u \in {} |-> 0]

RECURSIVE SortById(_)
SortById(S) ==
  IF S = {} THEN <<>>
  ELSE LET m == CHOOSE r \in S : \A q \in S : r.id <= q.id
       IN  <<m>> \o SortById(S \ {m})

Goto(p, label, l) == pc' = [pc EXCEPT ![p] = label] /\ loc' = [loc EXCEPT ![p] = l]
\* the handler returns, or its promise is rejected by a thrown database error
Return(p) == Goto(p, "idle", LocInit)
\* the command handler returns a refusal: the text it returns is kept as reply
Refuse(p, reply) == Goto(p, "idle", [LocInit EXCEPT !.reply = reply])

\* ------------------------------------------------------------- market clock
Day(t) == (t \div DayMs) % 7
Hour(t) == (t \div HourMs) % 24

\* variant of isMarketOpen that does not ask the database
isMarketOpen_clockOnly ==
  IF config.marketStatus = "open" THEN TRUE
  ELSE IF config.marketStatus = "close" THEN FALSE
  ELSE IF Day(now) = 0 \/ Day(now) = 6 THEN FALSE
  ELSE IF Hour(now) < config.openHour \/ Hour(now) >= config.closeHour THEN FALSE
  ELSE TRUE

\* variant of isMarketOpen that asks the database before the configuration
isMarketOpen_dbFirst ==
  IF \E s \in bourse_state : s.marketOpenStatus \in {"open", "close"}
  THEN \E s \in bourse_state : s.marketOpenStatus = "open"
  ELSE IF config.marketStatus = "open" THEN TRUE
  ELSE IF config.marketStatus = "close" THEN FALSE
  ELSE IF Day(now) = 0 \/ Day(now) = 6 THEN FALSE
  ELSE IF Hour(now) < config.openHour \/ Hour(now) >= config.closeHour THEN FALSE
  ELSE TRUE

isMarketOpen ==
  IF config.marketStatus = "open" THEN TRUE
  ELSE IF config.marketStatus = "close" THEN FALSE
  ELSE IF \E s \in bourse_state : s.marketOpenStatus \in {"open", "close"}
       THEN \E s \in bourse_state : s.marketOpenStatus = "open"
  ELSE IF Day(now) = 0 \/ Day(now) = 6 THEN FALSE
  ELSE IF Hour(now) < config.openHour \/ Hour(now) >= config.closeHour THEN FALSE
  ELSE TRUE

\* ------------------------------------------------------------ freeze window
\* variant of freezeMs without the cap at maxFreezeTime
freezeMs_uncapped(cost) ==
  IF config.maxFreezeTime > 0
  THEN Max((cost * 600) \div config.freezeCostPerMinute, config.minFreezeTime * MinuteMs)
  ELSE 0

\* freezeMinutes = cost / freezeCostPerMinute, capped above then below; the Date
\* constructor truncates startTime + freezeMinutes * 60000 to whole ms.
\* cost is in cents: cost / 100 / fcpm minutes = cost * 600 / fcpm ms.
freezeMs(cost) ==
  IF config.maxFreezeTime > 0
  THEN LET raw == (cost * 600) \div config.freezeCostPerMinute
           capped == IF cost * 600 > config.maxFreezeTime * MinuteMs * config.freezeCostPerMinute
                     THEN config.maxFreezeTime * MinuteMs ELSE raw
       IN  IF capped < config.minFreezeTime * MinuteMs
           THEN config.minFreezeTime * MinuteMs ELSE capped
  ELSE 0
\* freezeMinutes === 0, on the number before it is multiplied out
freezeIsZero(cost) ==
  IF config.maxFreezeTime > 0
  THEN cost = 0 /\ config.minFreezeTime = 0
  ELSE TRUE

\* ================================================= processPendingTransactions
\* continue the for-loop over the rows that remain, or leave the function
pptLoop(p, rows, t) ==
  IF rows = <<>>
  THEN IF p \in Ticks THEN Goto(p, "tick_prune", LocInit) ELSE Return(p)
  ELSE Goto(p, IF Head(rows).type = "buy" THEN "ppt_getHolding" ELSE "ppt_changeGet",
            [LocInit EXCEPT !.pending = rows, !.tnow = t])

\* variant of matured that takes every pending order
matured_all(t) == bourse_pending

\* the filter { endTime: { $lte: now } }
matured(t) == {r \in bourse_pending : r.endTime <= t}

\* const now = new Date()
\* const pending = await database.get('bourse_pending', { endTime: { $lte: now } })
pptGet(p) ==
  /\ pc[p] = "ppt_get"
  /\ LET rows == SortById(matured(now))
     IN  /\ pptLoop(p, rows, now)
         /\ pptRun' = IF rows # <<>> THEN pptRun
                      ELSE IF pptRun \in {"settled", "repeat"} THEN "repeat" ELSE "empty"
  /\ UNCHANGED <<envVars, engineVars, dbVars, settled, removed, sharesIn, sharesOut, priceHist,
                 cashHist>>

\* buy: const holding = await database.get('bourse_holding', ...)
pptGetHolding(p) ==
  /\ pc[p] = "ppt_getHolding"
  /\ LET txn == Head(loc[p].pending)
     IN  Goto(p, "ppt_putHolding",
              [loc[p] EXCEPT !.holding = IF txn.userId \in DOMAIN bourse_holding
                                         THEN {bourse_holding[txn.userId]} ELSE {}])
  /\ UNCHANGED <<envVars, engineVars, dbVars, histVars>>

\* the cost basis a matured buy adds to an existing holding row
buyTotalCost(h, txn) ==
  LET existingCost == IF h.totalCost <= 0 THEN h.amount * txn.price ELSE h.totalCost
  IN  existingCost + txn.cost

\* buy: database.create (no row was read) or database.set (amount and totalCost
\* computed from the row that was read)
pptPutHolding(p) ==
  /\ pc[p] = "ppt_putHolding"
  /\ LET txn == Head(loc[p].pending)
         u == txn.userId
     IN  IF loc[p].holding = {}
         THEN IF u \in DOMAIN bourse_holding
              THEN \* duplicate primary key: create throws
                   /\ Return(p)
                   /\ UNCHANGED <<bourse_holding, settled, sharesIn>>
              ELSE /\ bourse_holding' = [v \in DOMAIN bourse_holding \cup {u} |->
                                          IF v = u THEN [amount |-> txn.amount, totalCost |-> txn.cost]
                                          ELSE bourse_holding[v]]
                   /\ settled' = [settled EXCEPT ![txn.id] = @ + 1]
                   /\ sharesIn' = [sharesIn EXCEPT ![u] = @ + txn.amount]
                   /\ Goto(p, "ppt_remove", loc[p])
         ELSE LET h == CHOOSE x \in loc[p].holding : TRUE
              IN  /\ IF u \in DOMAIN bourse_holding
                     THEN /\ bourse_holding' = [bourse_holding EXCEPT ![u] =
                                                 [amount |-> h.amount + txn.amount,
                                                  totalCost |-> buyTotalCost(h, txn)]]
                          /\ settled' = [settled EXCEPT ![txn.id] = @ + 1]
                          /\ sharesIn' = [sharesIn EXCEPT ![u] = @ + txn.amount]
                     ELSE \* the row is gone: set updates nothing
                          UNCHANGED <<bourse_holding, settled, sharesIn>>
                  /\ Goto(p, "ppt_remove", loc[p])
  /\ UNCHANGED <<envVars, engineVars, bourse_state, bourse_pending, bourse_history, monetary,
                 nextId, removed, sharesOut, pptRun, priceHist,
                 monetary_bank_int, cashHist>>

\* sell: changeCashBalance reads the monetary row
pptChangeGet(p) ==
  /\ pc[p] = "ppt_changeGet"
  /\ LET txn == Head(loc[p].pending)
     IN  Goto(p, "ppt_changeSet", [loc[p] EXCEPT !.newValue = monetary[txn.userId] + txn.cost])
  /\ UNCHANGED <<envVars, engineVars, dbVars, histVars>>

\* sell: changeCashBalance writes the new value
pptChangeSet(p) ==
  /\ pc[p] = "ppt_changeSet"
  /\ LET txn == Head(loc[p].pending)
     IN  /\ monetary' = [monetary EXCEPT ![txn.userId] = loc[p].newValue]
         /\ settled' = [settled EXCEPT ![txn.id] = @ + 1]
         /\ cashHist' = [cashHist EXCEPT ![txn.userId].credited = @ + txn.cost]
  /\ Goto(p, "ppt_remove", loc[p])
  /\ UNCHANGED <<envVars, engineVars, bourse_state, bourse_pending, bourse_holding,
                 bourse_history, monetary_bank_int, nextId, removed, sharesIn, sharesOut,
                 pptRun, priceHist>>

\* sell: the database call of changeCashBalance throws; changeCashBalance catches
\* the error and returns false, processPendingTransactions logs it and goes on
pptChangeFail(p) ==
  /\ pc[p] = "ppt_changeSet"
  /\ Goto(p, "ppt_remove", loc[p])
  /\ UNCHANGED <<envVars, engineVars, dbVars, histVars>>

\* variant of removeRow that leaves the settled order in the table
removeRow_kept(id) == bourse_pending

\* database.remove('bourse_pending', { id })
removeRow(id) == {r \in bourse_pending : r.id # id}

\* await database.remove('bourse_pending', { id: txn.id })
pptRemove(p) ==
  /\ pc[p] = "ppt_remove"
  /\ LET txn == Head(loc[p].pending)
     IN  /\ bourse_pending' = removeRow(txn.id)
         /\ removed' = removed \cup {txn.id}
  /\ pptLoop(p, Tail(loc[p].pending), loc[p].tnow)
  /\ pptRun' = IF Tail(loc[p].pending) # <<>> THEN pptRun
               ELSE IF loc[p].tnow = now THEN "settled" ELSE "none"
  /\ UNCHANGED <<envVars, engineVars, bourse_state, bourse_holding, bourse_history, monetary,
                 nextId, settled, sharesIn, sharesOut, priceHist,
                 monetary_bank_int, cashHist>>

\* a direct call of processPendingTransactions()
pptCall(p) ==
  /\ pc[p] = "idle"
  /\ Goto(p, "ppt_get", LocInit)
  /\ UNCHANGED <<envVars, engineVars, dbVars, histVars>>

processPendingTransactions(p) ==
  \/ pptGet(p)
  \/ pptGetHolding(p)
  \/ pptPutHolding(p)
  \/ pptChangeGet(p)
  \/ pptChangeSet(p)
  \/ pptRemove(p)

\* ================================================================ stock.buy
\* handlers that will still create an order; keeps the run within MaxOrders
placing == Cardinality({q \in Handlers : pc[q] \in {"pay_getCash", "pay_getBank", "pay_changeGet",
                                                     "pay_changeSet", "bank_select", "bank_put",
                                                     "sell_getHolding", "sell_putHolding",
                                                     "queue_get", "queue_create"}})

\* variant of validAmount that asks only for a positive number
validAmount_positive(arg) == arg > 0

\* the <amount:number> argument of stock.buy and stock.sell, in tenths of a
\* share: !amount || amount <= 0 || !Number.isInteger(amount) is the refusal
validAmount(arg) == ~(arg = 0 \/ arg <= 0 \/ arg % 10 # 0)

\* stock.buy <arg>: validation, isMarketOpen(), cost = currentPrice * amount,
\* pay() is entered
buyArg(p, u, arg) ==
  /\ pc[p] = "idle"
  /\ nextId + placing <= MaxOrders
  /\ IF ~validAmount(arg)
     THEN Goto(p, "idle", [LocInit EXCEPT !.reply = "invalidBuyAmount", !.type = "buy", !.arg = arg])
     ELSE IF ~isMarketOpen
     THEN Goto(p, "idle", [LocInit EXCEPT !.reply = "marketClosed", !.type = "buy", !.arg = arg])
     ELSE Goto(p, "pay_getCash",
               [LocInit EXCEPT !.userId = u, !.type = "buy", !.amount = arg \div 10,
                               !.cost = currentPrice * (arg \div 10), !.arg = arg])
  /\ UNCHANGED <<envVars, engineVars, dbVars, histVars>>

\* stock.buy of a whole number of shares
buyStart(p, u, amount) == buyArg(p, u, 10 * amount)

\* pay has succeeded: stock.buy computes the freeze time from cost and goes on to
\* the queue
paySucceeded(p, l) ==
  Goto(p, "queue_get", [l EXCEPT !.newValue = 0, !.freezeMs = freezeMs(l.cost),
                                 !.freezeZero = freezeIsZero(l.cost)])

\* variant of fundsShort that lets every payment through
fundsShort_never(cash, bankDemand, cost) == FALSE

\* pay: if (cash + bankDemand < cost)
fundsShort(cash, bankDemand, cost) == cash + bankDemand < cost

\* pay, once both balances are read: the sufficiency check, cashDeduct, and the
\* first leg that applies
payChecked(p, cash, bankDemand) ==
  IF fundsShort(cash, bankDemand, loc[p].cost)
  THEN Refuse(p, "insufficientFunds")
  ELSE LET cashDeduct == Min(cash, loc[p].cost)
           l == [loc[p] EXCEPT !.cashDeduct = cashDeduct, !.remaining = loc[p].cost, !.newValue = 0]
       IN  IF cashDeduct > 0 THEN Goto(p, "pay_changeGet", l) ELSE Goto(p, "bank_select", l)

\* getBankDemandBalance: the sum of the user's demand rows
bankDemandOf(u) ==
  LET rows == {r \in monetary_bank_int : r.uid = u}
      RECURSIVE Sum(_)
      Sum(R) == IF R = {} THEN 0 ELSE LET r == CHOOSE x \in R : TRUE IN r.amount + Sum(R \ {r})
  IN  Sum(rows)

\* pay: getCashBalance; with no bank row at all getBankDemandBalance is 0
payGetCash(p) ==
  /\ pc[p] = "pay_getCash"
  /\ LET cash == monetary[loc[p].userId]
     IN  IF monetary_bank_int = {}
         THEN payChecked(p, cash, 0)
         ELSE Goto(p, "pay_getBank", [loc[p] EXCEPT !.newValue = cash])
  /\ UNCHANGED <<envVars, engineVars, dbVars, histVars>>

\* pay: getBankDemandBalance reads the demand rows
payGetBank(p) ==
  /\ pc[p] = "pay_getBank"
  /\ payChecked(p, loc[p].newValue, bankDemandOf(loc[p].userId))
  /\ UNCHANGED <<envVars, engineVars, dbVars, histVars>>

\* pay: changeCashBalance(uid, currency, -cashDeduct) reads the row
payChangeGet(p) ==
  /\ pc[p] = "pay_changeGet"
  /\ LET newValue == monetary[loc[p].userId] - loc[p].cashDeduct
     IN  IF newValue < 0
         THEN Refuse(p, "cashDeductFailed")
         ELSE Goto(p, "pay_changeSet", [loc[p] EXCEPT !.newValue = newValue])
  /\ UNCHANGED <<envVars, engineVars, dbVars, histVars>>

\* pay: changeCashBalance writes; what remains of the cost goes to the bank leg
payChangeSet(p) ==
  /\ pc[p] = "pay_changeSet"
  /\ monetary' = [monetary EXCEPT ![loc[p].userId] = loc[p].newValue]
  /\ LET remainingCost == loc[p].cost - loc[p].cashDeduct
     IN  IF remainingCost > 0
         THEN Goto(p, "bank_select", [loc[p] EXCEPT !.remaining = remainingCost, !.newValue = 0])
         ELSE paySucceeded(p, loc[p])
  /\ UNCHANGED <<envVars, engineVars, bourse_state, bourse_pending, bourse_holding,
                 bourse_history, monetary_bank_int, nextId, histVars>>

\* deductBankDemand: the for-loop over the rows that were read; at its end
\* remaining === 0 decides, and pay reverses the cash leg when it failed
bankLoop(p, l) ==
  IF l.remaining > 0 /\ l.records # <<>>
  THEN Goto(p, "bank_put", l)
  ELSE IF l.remaining = 0
       THEN paySucceeded(p, l)
       ELSE IF l.cashDeduct > 0 THEN Goto(p, "rb_get", l) ELSE Refuse(p, "bankDeductFailed")

\* variant of demandRecords that puts the newest row first
demandRecords_newestFirst(u) ==
  LET rows == SortById({r \in monetary_bank_int : r.uid = u})
  IN  [i \in 1..Len(rows) |-> rows[Len(rows) + 1 - i]]

\* select('monetary_bank_int').where({ uid, currency, type: 'demand' })
\*   .orderBy('settlementDate', 'asc')
demandRecords(u) == SortById({r \in monetary_bank_int : r.uid = u})

\* deductBankDemand: select the user's demand rows by settlementDate
bankSelect(p) ==
  /\ pc[p] = "bank_select"
  /\ bankLoop(p, [loc[p] EXCEPT !.records = demandRecords(loc[p].userId)])
  /\ UNCHANGED <<envVars, engineVars, dbVars, histVars>>

\* deductBankDemand: database.remove of a row used up, or database.set of the
\* amount left in it, computed from the row as it was read
bankPut(p) ==
  /\ pc[p] = "bank_put"
  /\ LET record == Head(loc[p].records)
         remaining == loc[p].remaining
     IN  IF record.amount <= remaining
         THEN /\ monetary_bank_int' = {r \in monetary_bank_int : r.id # record.id}
              /\ bankLoop(p, [loc[p] EXCEPT !.remaining = remaining - record.amount,
                                            !.records = Tail(loc[p].records)])
         ELSE /\ monetary_bank_int' =
                   {IF r.id = record.id THEN [r EXCEPT !.amount = record.amount - remaining] ELSE r :
                      r \in monetary_bank_int}
              /\ bankLoop(p, [loc[p] EXCEPT !.remaining = 0, !.records = Tail(loc[p].records)])
  /\ UNCHANGED <<envVars, engineVars, bourse_state, bourse_pending, bourse_holding,
                 bourse_history, monetary, nextId, histVars>>

\* pay, rollback: changeCashBalance(uid, currency, cashDeduct) reads the row
rollbackGet(p) ==
  /\ pc[p] = "rb_get"
  /\ Goto(p, "rb_set", [loc[p] EXCEPT !.newValue = monetary[loc[p].userId] + loc[p].cashDeduct])
  /\ UNCHANGED <<envVars, engineVars, dbVars, histVars>>

\* pay, rollback: changeCashBalance writes; pay returns the failure
rollbackSet(p) ==
  /\ pc[p] = "rb_set"
  /\ monetary' = [monetary EXCEPT ![loc[p].userId] = loc[p].newValue]
  /\ Refuse(p, "bankDeductFailed")
  /\ UNCHANGED <<envVars, engineVars, bourse_state, bourse_pending, bourse_holding,
                 bourse_history, monetary_bank_int, nextId, histVars>>

\* pay(uid, cost, currency)
pay(p) ==
  \/ payGetCash(p)
  \/ payGetBank(p)
  \/ payChangeGet(p)
  \/ payChangeSet(p)
  \/ bankSelect(p)
  \/ bankPut(p)
  \/ rollbackGet(p)
  \/ rollbackSet(p)

\* ---------------------------------------------------- queueing (buy and sell)
\* variant of lastOrderEndTime that looks at the user's orders of both sides
lastOrderEndTime_anySide(u, type) ==
  LET same == {r \in bourse_pending : r.userId = u}
  IN  IF same = {} THEN {} ELSE {(CHOOSE r \in same : \A q \in same : q.endTime <= r.endTime).endTime}

\* database.get('bourse_pending', { userId, type }, { sort: { endTime: 'desc' }, limit: 1 })
lastOrderEndTime(u, type) ==
  LET same == {r \in bourse_pending : r.userId = u /\ r.type = type}
  IN  IF same = {} THEN {} ELSE {(CHOOSE r \in same : \A q \in same : q.endTime <= r.endTime).endTime}

\* variant of queuedStart that starts every order now
queuedStart_now(u, type) == now

queuedStart(u, type) ==
  LET last == lastOrderEndTime(u, type)
  IN  IF last # {} /\ (CHOOSE e \in last : TRUE) > now THEN CHOOSE e \in last : TRUE ELSE now

queueGet(p) ==
  /\ pc[p] = "queue_get"
  /\ LET startTime == queuedStart(loc[p].userId, loc[p].type)
     IN  Goto(p, "queue_create",
              [loc[p] EXCEPT !.row = [id |-> 0, userId |-> loc[p].userId, type |-> loc[p].type,
                                      amount |-> loc[p].amount, price |-> currentPrice,
                                      cost |-> loc[p].cost, startTime |-> startTime,
                                      endTime |-> startTime + loc[p].freezeMs]])
  /\ UNCHANGED <<envVars, engineVars, dbVars, histVars>>

\* database.create('bourse_pending', ...); with a zero freeze the handler goes on
\* to processPendingTransactions, otherwise it only renders the receipt
queueCreate(p) ==
  /\ pc[p] = "queue_create"
  /\ bourse_pending' = bourse_pending \cup {[loc[p].row EXCEPT !.id = nextId]}
  /\ nextId' = nextId + 1
  /\ IF loc[p].freezeZero THEN Goto(p, "ppt_get", LocInit) ELSE Return(p)
  /\ pptRun' = "none"
  /\ cashHist' = IF loc[p].type = "buy"
                 THEN [cashHist EXCEPT ![loc[p].userId].ordered = @ + loc[p].cost,
                                       ![loc[p].userId].bought = @ + loc[p].amount]
                 ELSE cashHist
  /\ UNCHANGED <<envVars, engineVars, bourse_state, bourse_holding, bourse_history, monetary,
                 monetary_bank_int, settled, removed, sharesIn, sharesOut, priceHist>>

\* =============================================================== stock.sell
\* stock.sell <arg>: validation, isMarketOpen(), the holding is read
sellArg(p, u, arg) ==
  /\ pc[p] = "idle"
  /\ nextId + placing <= MaxOrders
  /\ IF ~validAmount(arg)
     THEN Goto(p, "idle", [LocInit EXCEPT !.reply = "invalidSellAmount", !.type = "sell", !.arg = arg])
     ELSE IF ~isMarketOpen
     THEN Goto(p, "idle", [LocInit EXCEPT !.reply = "marketClosed", !.type = "sell", !.arg = arg])
     ELSE Goto(p, "sell_getHolding",
               [LocInit EXCEPT !.userId = u, !.type = "sell", !.amount = arg \div 10, !.arg = arg])
  /\ UNCHANGED <<envVars, engineVars, dbVars, histVars>>

\* stock.sell of a whole number of shares
sellStart(p, u, amount) == sellArg(p, u, 10 * amount)

\* the holding row a sell leaves behind: {} when the row is removed
\* the cost basis of the holding row, estimated at the current price when the
\* row has none
existingTotalCost(h) == IF h.totalCost <= 0 THEN h.amount * currentPrice ELSE h.totalCost

\* variant of soldHolding that writes the row also when no share is left
soldHolding_kept(h, amount, avgCostPerShare) ==
  {[amount |-> h.amount - amount,
    totalCost |-> Max(0, existingTotalCost(h) - avgCostPerShare * amount)]}

soldHolding(h, amount, avgCostPerShare) ==
  LET soldCost == avgCostPerShare * amount
  IN  IF h.amount - amount = 0 THEN {}
      ELSE {[amount |-> h.amount - amount, totalCost |-> Max(0, existingTotalCost(h) - soldCost)]}

\* Number(x.toFixed(2)) of the rational num/den of either sign: toFixed rounds
\* the magnitude
ToFixed2Signed(num, den) ==
  IF num >= 0 THEN ToFixed2(num, den) ELSE {0 - x : x \in ToFixed2(0 - num, den)}

\* Number(((num / den) * 100).toFixed(2)) in 1/100 percent, den > 0: the
\* quotient is taken in two steps of 100 to stay within 32 bits
Percent2(num, den) ==
  LET a == IF num >= 0 THEN num ELSE 0 - num
      q == (a * 100) \div den
      r == (a * 100) % den
      mags == {100 * q + x : x \in ToFixed2(r * 100, den)}
  IN  IF num >= 0 THEN mags ELSE {0 - x : x \in mags}

\* profitPercent = Number(((profit / soldCost) * 100).toFixed(2)); {} is null
profitPercents(profit, soldCost) ==
  IF soldCost > 0 THEN Percent2(profit, soldCost) ELSE {}

\* variant of avgCosts that cuts the average to whole cents
avgCosts_cut(h) ==
  {(IF h.totalCost <= 0 THEN h.amount * currentPrice ELSE h.totalCost) \div h.amount}

\* avgCostPerShare = Number((existingTotalCost / currentHolding.amount).toFixed(2))
avgCosts(h) ==
  ToFixed2(existingTotalCost(h), h.amount)

\* read the holding, reject when short, compute the row to write
sellGetHolding(p) ==
  /\ pc[p] = "sell_getHolding"
  /\ LET u == loc[p].userId
     IN  IF u \notin DOMAIN bourse_holding \/ bourse_holding[u].amount < loc[p].amount
         THEN Refuse(p, "insufficientHolding")
         ELSE \E avg \in avgCosts(bourse_holding[u]) :
                Goto(p, "sell_putHolding",
                     [loc[p] EXCEPT !.holding = soldHolding(bourse_holding[u], loc[p].amount, avg),
                                    !.currentAmount = bourse_holding[u].amount,
                                    !.existingTotalCost = existingTotalCost(bourse_holding[u]),
                                    !.avgCostPerShare = avg,
                                    !.soldCost = avg * loc[p].amount])
  /\ UNCHANGED <<envVars, engineVars, dbVars, histVars>>

\* database.remove or database.set of the holding; gain = currentPrice * amount
sellPutHolding(p) ==
  /\ pc[p] = "sell_putHolding"
  /\ LET u == loc[p].userId
         gain == currentPrice * loc[p].amount
     IN  /\ bourse_holding' =
              IF u \notin DOMAIN bourse_holding THEN bourse_holding
              ELSE IF loc[p].holding = {}
                   THEN [v \in DOMAIN bourse_holding \ {u} |-> bourse_holding[v]]
                   ELSE [bourse_holding EXCEPT ![u] = CHOOSE x \in loc[p].holding : TRUE]
         /\ sharesOut' = [sharesOut EXCEPT ![u] = @ + loc[p].amount]
         /\ \E pct \in profitPercents(gain - loc[p].soldCost, loc[p].soldCost) \cup
                       (IF loc[p].soldCost > 0 THEN {} ELSE {0}) :
              Goto(p, "queue_get", [loc[p] EXCEPT !.holding = {}, !.cost = gain,
                                                  !.freezeMs = freezeMs(gain),
                                                  !.freezeZero = freezeIsZero(gain),
                                                  !.profit = gain - loc[p].soldCost,
                                                  !.profitPercent = pct])
  /\ UNCHANGED <<envVars, engineVars, bourse_state, bourse_pending, bourse_history, monetary,
                 nextId, settled, removed, sharesIn, pptRun, priceHist,
                 monetary_bank_int, cashHist>>

\* ======================================================= K-line patterns
\* const kLinePatterns: the catalog in the order of its keys, each entry as
\* <<id, category>>
kLinePatterns ==
  << <<"bullish_steady", "bullish">>, <<"bullish_v_reversal", "bullish">>,
     <<"bullish_stair", "bullish">>, <<"bullish_late_rally", "bullish">>,
     <<"bullish_double_bottom", "bullish">>, <<"bullish_gap_up", "bullish">>,
     <<"bullish_three_soldiers", "bullish">>, <<"bullish_morning_dip", "bullish">>,
     <<"bearish_steady", "bearish">>, <<"bearish_inverted_v", "bearish">>,
     <<"bearish_stair", "bearish">>, <<"bearish_late_dive", "bearish">>,
     <<"bearish_double_top", "bearish">>, <<"bearish_gap_down", "bearish">>,
     <<"bearish_three_crows", "bearish">>, <<"bearish_morning_bounce", "bearish">>,
     <<"neutral_consolidation", "neutral">>, <<"neutral_wide_range", "neutral">>,
     <<"neutral_converging", "neutral">>, <<"neutral_diverging", "neutral">>,
     <<"neutral_box", "neutral">>, <<"neutral_up_down", "neutral">>,
     <<"neutral_down_up", "neutral">>, <<"neutral_slight_up", "neutral">>,
     <<"neutral_slight_down", "neutral">> >>

\* kLinePatterns[id] is defined
knownPattern(id) == \E i \in DOMAIN kLinePatterns : kLinePatterns[i][1] = id

RECURSIVE namesOf(_, _)
namesOf(entries, category) ==
  IF entries = <<>> THEN <<>>
  ELSE (IF Head(entries)[2] = category THEN <<Head(entries)[1]>> ELSE <<>>)
         \o namesOf(Tail(entries), category)

\* the ids of each category, in catalog order
patternsByCategory == [category \in {"bullish", "bearish", "neutral"} |->
                         namesOf(kLinePatterns, category)]

\* variant of patternNames that also lists an id the catalog lacks
patternNames_stale == [i \in DOMAIN kLinePatterns |-> kLinePatterns[i][1]] \o <<"bullish_breakout">>

\* Object.keys(kLinePatterns)
patternNames == [i \in DOMAIN kLinePatterns |-> kLinePatterns[i][1]]

\* list[Math.floor(Math.random() * list.length)], the draw r in hundredths
pick(list, r) == list[(r * Len(list)) \div 100 + 1]

\* the ids selectPatternByExpectation can return. bullishProb is above 0 whatever
\* the deviation, so the draw 0 falls in the category bullish; which of the three
\* categories another draw falls in depends on the deviation and the cycle progress
selectPatternByExpectation ==
  LET categoriesOf(c) == IF c = 0 THEN {"bullish"} ELSE {"bullish", "bearish", "neutral"}
  IN  {pick(patternsByCategory[category], r) :
         category \in UNION {categoriesOf(c) : c \in patternRandom}, r \in patternRandom}

\* 1 hour + Math.random() * 5 hours
dwell(r) == HourMs + (r * 5 * HourMs) \div 100

\* switchKLinePattern: the new pattern is one of `ids`; the switch is stamped
\* with the system clock
switchKLinePattern(ids) ==
  \E id \in ids, r \in patternRandom :
    /\ currentPattern' = id
    /\ lastPatternSwitchTime' = now
    /\ nextPatternSwitchTime' = now + dwell(r)

\* the ids a switch without expectation picks from
randomPattern == {pick(patternNames, r) : r \in patternRandom}

\* __testNow ?? new Date()
clock == IF testNow = {} THEN now ELSE CHOOSE t \in testNow : TRUE

\* the switch condition of updatePrice at its time t
patternDue(t) ==
  t >= nextPatternSwitchTime \/ t - lastPatternSwitchTime > 30 * HourMs

\* the locals of a test command that is awaiting updatePrice
frame(p) == [LocInit EXCEPT !.ticks = loc[p].ticks, !.stepMs = loc[p].stepMs]

\* ============================================================== updatePrice
\* Math.random() * 2 - 1 of createAutoState, as the percentage 100 * targetRatio
TargetRatios == {75, 100, 125}
\* the composed return patternReturn + reversionReturn + randomReturn, in percent
Returns == {-30, 0, 30}
Drift == {0, 30}

\* createAutoState: the state row of a fresh auto cycle (targetPrice in P4)
autoState(ratio, t) ==
  LET targetPrice == currentPrice * ratio
  IN  [lastCycleStart |-> t, startPrice |-> currentPrice * 100,
       targetPrice |-> Max(currentPrice * 50, Min(currentPrice * 150, targetPrice)),
       mode |-> "auto", endTime |-> t + WeekHours * HourMs, marketOpenStatus |-> ""]

weekUpper(basePrice) == (basePrice * 3) \div 2
weekLower(basePrice) == basePrice \div 2
dayUpper(dayBase) == (dayBase * 13) \div 10
dayLower(dayBase) == (dayBase * 7) \div 10
dayBaseOf(basePrice) ==
  IF dailyOpenPrice = {} THEN basePrice ELSE 100 * (CHOOSE d \in dailyOpenPrice : TRUE)
\* variant of upperLimit that takes the looser of the two limits
upperLimit_loose(basePrice) == Max(weekUpper(basePrice), dayUpper(dayBaseOf(basePrice)))

upperLimit(basePrice) == Min(weekUpper(basePrice), dayUpper(dayBaseOf(basePrice)))
lowerLimit(basePrice) == Max(weekLower(basePrice), dayLower(dayBaseOf(basePrice)))

\* soft landing: within 5% of a limit the overshoot goes through tanh, whose value
\* lies in (0, 1]; the results tried are the mills next to the limit
softUpper(x, upper) ==
  IF x * 100 > upper * 95
  THEN {y \in {upper - 10 * k : k \in 0..NearLimit} : y * 100 > upper * 95}
  ELSE {x}
softLower(y, lower) ==
  IF y * 100 < lower * 105
  THEN {z \in {lower + 10 * k : k \in 0..NearLimit} : z * 100 < lower * 105}
  ELSE {y}

hardClamp(z, lower, upper) == Max(lower, Min(upper, z))
priceFloor(v) == IF v < PriceFloor * 100 THEN PriceFloor * 100 ELSE v

\* the prices (cents) one price update can produce under the cycle whose start
\* price is basePrice
newPrices(basePrice, returns) ==
  LET upper == upperLimit(basePrice)
      lower == lowerLimit(basePrice)
      landed == UNION {UNION {softLower(y, lower) : y \in softUpper(currentPrice * (100 + r), upper)} :
                       r \in returns}
  IN  UNION {ToFixed2(priceFloor(hardClamp(z, lower, upper)), 100) : z \in landed}

\* the second half of updatePrice: compose the return, clamp, round, publish
\* where the caller of updatePrice goes on once it returns
afterUpdate(p) ==
  IF p \in Ticks THEN "ppt_get" ELSE IF loc[p].ticks > 0 THEN "test_next" ELSE "idle"

movePrice(p, basePrice, returns, t) ==
  /\ IF patternDue(t)
     THEN switchKLinePattern(selectPatternByExpectation) /\ switchClock' = t
     ELSE UNCHANGED patternVars
  /\ IF knownPattern(currentPattern')
     THEN \E newPrice \in newPrices(basePrice, returns) :
            /\ currentPrice' = newPrice
            /\ tickBase' = <<basePrice, dayBaseOf(basePrice)>>
            /\ Goto(p, "up_history", [frame(p) EXCEPT !.newValue = newPrice])
     ELSE \* unknown pattern: updatePrice warns and returns
          /\ Goto(p, afterUpdate(p), frame(p))
          /\ UNCHANGED <<currentPrice, tickBase>>

\* the timestamps updatePrice works with: a lastCycleStart the row lacks (0) is
\* taken as Date.now() - 7 days, an endTime it lacks as that lastCycleStart + 7
\* days; the row in the table is left as it is. Date.now() is read after now, so
\* it is t or later: an endTime made up from it is never before t.
stateLastCycleStart(s, t) == IF s.lastCycleStart = 0 THEN t - WeekHours * HourMs ELSE s.lastCycleStart
stateEndTime(s, t) == IF s.endTime = 0 THEN stateLastCycleStart(s, t) + WeekHours * HourMs ELSE s.endTime

\* variant of needNewState under which only an auto cycle expires
needNewState_autoOnly(t) ==
  bourse_state = {} \/ (\E s \in bourse_state : t > stateEndTime(s, t) /\ s.mode = "auto")

\* the expiry check: no row, or now > endTime whatever the mode
needNewState(t) == bourse_state = {} \/ (\E s \in bourse_state : t > stateEndTime(s, t))

\* let state = (await database.get('bourse_state', ...))[0]; expiry check
upGetState(p, returns) ==
  /\ pc[p] = "up_getState"
  /\ IF needNewState(clock)
     THEN /\ \E ratio \in TargetRatios :
               Goto(p, "up_putState", [frame(p) EXCEPT !.newState = {autoState(ratio, clock)},
                                                       !.isNew = (bourse_state = {}),
                                                       !.seenPrice = currentPrice,
                                                       !.tnow = clock])
          /\ UNCHANGED <<currentPrice, tickBase, patternVars>>
     ELSE movePrice(p, (CHOOSE s \in bourse_state : TRUE).startPrice, returns, clock)
  /\ UNCHANGED <<envVars, wasMarketOpen, dailyOpenPrice, testNow, dbVars, orderHist, cyclePrice,
                 rolled>>

\* variant of putState that writes the whole row
putState_whole(isNew, newState) == {newState}

\* createAutoState: database.create when no row was read, else database.set of
\* every field but the key (marketOpenStatus is not among them)
putState(isNew, newState) ==
  IF isNew THEN {newState}
  ELSE {[newState EXCEPT !.marketOpenStatus = s.marketOpenStatus] : s \in bourse_state}

upPutState(p, returns) ==
  /\ pc[p] = "up_putState"
  /\ LET newState == CHOOSE s \in loc[p].newState : TRUE
     IN  IF loc[p].isNew /\ bourse_state # {}
         THEN \* duplicate primary key: create throws, the tick is abandoned
              /\ Return(p)
              /\ UNCHANGED <<bourse_state, currentPrice, priceHist, patternVars>>
         ELSE /\ bourse_state' = putState(loc[p].isNew, newState)
              /\ cyclePrice' = loc[p].seenPrice
              /\ rolled' = IF loc[p].isNew THEN "" ELSE (CHOOSE s \in bourse_state : TRUE).mode
              /\ movePrice(p, newState.startPrice, returns, loc[p].tnow)
  /\ UNCHANGED <<envVars, wasMarketOpen, dailyOpenPrice, testNow, bourse_pending, bourse_holding,
                 bourse_history, monetary, nextId, orderHist,
                 monetary_bank_int>>

\* await database.create('bourse_history', ...); processPendingTransactions follows
upHistory(p) ==
  /\ pc[p] = "up_history"
  /\ bourse_history' = loc[p].newValue
  /\ Goto(p, afterUpdate(p), frame(p))
  /\ UNCHANGED <<envVars, engineVars, bourse_state, bourse_pending, bourse_holding, monetary,
                 nextId, histVars,
                 monetary_bank_int>>

updatePrice(p, returns) == upGetState(p, returns) \/ upPutState(p, returns) \/ upHistory(p)

\* ========================================================= the interval tick
\* variant of tickStart that goes on to updatePrice whether or not the market
\* is open
tickStart_always(p) ==
  /\ p \in Ticks
  /\ pc[p] = "idle"
  /\ timerDue
  /\ timerDue' = FALSE
  /\ dailyOpenPrice' = IF isMarketOpen /\ ~wasMarketOpen THEN {currentPrice} ELSE dailyOpenPrice
  /\ wasMarketOpen' = isMarketOpen
  /\ Goto(p, "up_getState", LocInit)
  /\ UNCHANGED <<config, patternRandom, now, clockSteps, crashes, currentPrice, testNow,
                 patternVars, dbVars, histVars>>

\* the callback of ctx.setInterval: nothing keeps it from starting while an
\* earlier invocation is still awaiting
tickStart(p) ==
  /\ p \in Ticks
  /\ pc[p] = "idle"
  /\ timerDue
  /\ timerDue' = FALSE
  /\ dailyOpenPrice' = IF isMarketOpen /\ ~wasMarketOpen THEN {currentPrice} ELSE dailyOpenPrice
  /\ wasMarketOpen' = isMarketOpen
  /\ IF isMarketOpen THEN Goto(p, "up_getState", LocInit) ELSE UNCHANGED procVars
  /\ UNCHANGED <<config, patternRandom, now, clockSteps, crashes, currentPrice, testNow,
                 patternVars, dbVars, histVars>>

\* await database.remove('bourse_history', { time: { $lt: oneMonthAgo } })
tickPrune(p) ==
  /\ pc[p] = "tick_prune"
  /\ Return(p)
  /\ UNCHANGED <<envVars, engineVars, dbVars, histVars>>

tick(p) == tickStart(p) \/ tickPrune(p)

\* ============================================================ stock.control
\* the targets asked of stock.control, in percent of the current price, and the
\* [hours:number] asked (0: none given)
ControlPercents == {0, 25, 100, 400}
ControlHours == {0, 12}

\* variant of controlTarget that stores the target as given
controlTarget_asGiven(price) == price

\* variant of controlTarget whose band is [0.5, 1.5] times the larger of the
\* current price and the day's base
controlTarget_maxBand(price) ==
  LET baseStart == currentPrice * 100
      top == Max(baseStart, dayBaseOf(baseStart))
  IN  Max(top \div 2, Min((top * 3) \div 2, price))

\* the target of stock.control, moved into the band around the current price
\* and the day's base
controlTarget(price) ==
  LET baseStart == currentPrice * 100
      dayBase == dayBaseOf(baseStart)
      upper == Min((baseStart * 3) \div 2, (dayBase * 3) \div 2)
      lower == Max(baseStart \div 2, dayBase \div 2)
  IN  Max(lower, Min(upper, price))

controlState(price, hours, t) ==
  LET duration == IF hours = 0 THEN DefaultControlHours ELSE hours
      baseStart == currentPrice * 100
  IN  [lastCycleStart |-> t, startPrice |-> baseStart,
       targetPrice |-> controlTarget(price),
       mode |-> "manual", endTime |-> t + duration * HourMs, marketOpenStatus |-> ""]

\* validation, the new manual cycle is computed, database.get is awaited
controlStart(p, price, hours) ==
  /\ p \in Admins
  /\ pc[p] = "idle"
  /\ IF price = 0 \/ price <= 0
     THEN Goto(p, "idle", [LocInit EXCEPT !.reply = "invalidTargetPrice", !.type = "control",
                                          !.price = price])
     ELSE Goto(p, "ctl_get", [LocInit EXCEPT !.newState = {controlState(price, hours, now)},
                                             !.price = price, !.type = "control",
                                             !.seenPrice = currentPrice])
  /\ UNCHANGED <<envVars, engineVars, dbVars, histVars>>

controlGet(p) ==
  /\ pc[p] = "ctl_get"
  /\ Goto(p, "ctl_put", [loc[p] EXCEPT !.isNew = (bourse_state = {})])
  /\ UNCHANGED <<envVars, engineVars, dbVars, histVars>>

controlPut(p) ==
  /\ pc[p] = "ctl_put"
  /\ IF loc[p].isNew /\ bourse_state # {}
     THEN \* duplicate primary key: create throws
          UNCHANGED <<bourse_state, cyclePrice>>
     ELSE /\ bourse_state' = putState(loc[p].isNew, CHOOSE s \in loc[p].newState : TRUE)
          /\ cyclePrice' = loc[p].seenPrice
  /\ Return(p)
  /\ UNCHANGED <<envVars, engineVars, bourse_pending, bourse_holding, bourse_history, monetary,
                 nextId, orderHist, rolled, tickBase,
                 monetary_bank_int>>

stockControl(p) ==
  \/ \E pct \in ControlPercents, hours \in ControlHours : controlStart(p, currentPrice * pct, hours)
  \/ controlGet(p)
  \/ controlPut(p)

\* ====================================================== bourse.admin.market
marketStart(p, status) ==
  /\ p \in Admins
  /\ pc[p] = "idle"
  /\ Goto(p, "mkt_get", [LocInit EXCEPT !.status = status, !.wasOpen = isMarketOpen])
  /\ UNCHANGED <<envVars, engineVars, dbVars, histVars>>

marketGet(p) ==
  /\ pc[p] = "mkt_get"
  /\ Goto(p, "mkt_put", [loc[p] EXCEPT !.isNew = (bourse_state = {}), !.tnow = now,
                                       !.seenPrice = currentPrice])
  /\ UNCHANGED <<envVars, engineVars, dbVars, histVars>>

\* the row bourse.admin.market creates when the table is empty
marketState(status, t) ==
  [lastCycleStart |-> t, startPrice |-> config.initialPrice, targetPrice |-> config.initialPrice,
   mode |-> "auto", endTime |-> t + MarketStateHours * HourMs, marketOpenStatus |-> status]

marketPut(p) ==
  /\ pc[p] = "mkt_put"
  /\ IF loc[p].isNew /\ bourse_state # {}
     THEN \* duplicate primary key: create throws
          UNCHANGED <<bourse_state, wasMarketOpen, cyclePrice, patternVars>>
     ELSE /\ bourse_state' = IF loc[p].isNew THEN {marketState(loc[p].status, loc[p].tnow)}
                             ELSE {[s EXCEPT !.marketOpenStatus = loc[p].status] : s \in bourse_state}
          /\ cyclePrice' = IF loc[p].isNew THEN loc[p].seenPrice ELSE cyclePrice
          /\ wasMarketOpen' = IF loc[p].status = "open" /\ ~loc[p].wasOpen THEN TRUE
                              ELSE IF loc[p].status = "close" THEN FALSE
                              ELSE wasMarketOpen
          /\ IF loc[p].status = "open" /\ ~loc[p].wasOpen
             THEN switchKLinePattern(randomPattern) /\ switchClock' = now
             ELSE UNCHANGED patternVars
  /\ Return(p)
  /\ UNCHANGED <<envVars, currentPrice, dailyOpenPrice, testNow, bourse_pending, bourse_holding,
                 bourse_history, monetary, nextId, orderHist, rolled, tickBase,
                 monetary_bank_int>>

adminMarket(p) ==
  \/ \E status \in {"open", "close", "auto"} : marketStart(p, status)
  \/ marketGet(p)
  \/ marketPut(p)

\* ============================================================ stock.pattern
stockPattern(p) ==
  /\ p \in Admins
  /\ pc[p] = "idle"
  /\ switchKLinePattern(randomPattern)
  /\ switchClock' = now
  /\ UNCHANGED <<envVars, currentPrice, wasMarketOpen, dailyOpenPrice, testNow, dbVars, procVars,
                 orderHist, priceHist>>

\* ========================================================== bourse.test.run
\* the virtual clock is set to the system clock and the first updatePrice starts
testStart(p, ticks, step) ==
  /\ p \in Admins
  /\ pc[p] = "idle"
  /\ IF ~config.enableDebug
     THEN Refuse(p, "debugDisabled") /\ UNCHANGED testNow
     ELSE /\ testNow' = {now}
          /\ Goto(p, "up_getState",
                  [LocInit EXCEPT !.type = "test",
                                  !.ticks = Max(1, Min(IF ticks = 0 THEN 1 ELSE ticks, 2000)),
                                  !.stepMs = 1000 * Max(10, Min(IF step = 0 THEN 120 ELSE step, 3600))])
  /\ UNCHANGED <<envVars, currentPrice, wasMarketOpen, dailyOpenPrice, patternVars, dbVars,
                 histVars>>

\* after updatePrice and the database.get of the limits: the virtual clock moves
\* one step on; after the last step it is set back to null
testNext(p) ==
  /\ pc[p] = "test_next"
  /\ IF testNow = {}
     THEN \* __testNow.getTime() of null throws
          Return(p) /\ UNCHANGED testNow
     ELSE IF loc[p].ticks = 1
     THEN testNow' = {} /\ Return(p)
     ELSE /\ testNow' = {t + loc[p].stepMs : t \in testNow}
          /\ Goto(p, "up_getState", [loc[p] EXCEPT !.ticks = @ - 1])
  /\ UNCHANGED <<envVars, currentPrice, wasMarketOpen, dailyOpenPrice, patternVars, dbVars,
                 histVars>>

\* the <ticks> and [step] (seconds, 0: none given) asked are 0 or 4, and 0 or 3600
testRun(p) ==
  \/ \E ticks \in {0, 4}, step \in {0, 3600} : testStart(p, ticks, step)
  \/ testNext(p)

\* ============================================================== environment
\* the clock moves on: by one timer interval, by a day, by a week
ClockSteps == {TickMs, DayMs, 7 * DayMs}

advance(steps) ==
  /\ clockSteps < MaxClock
  /\ \E d \in steps : now' = now + d
  /\ clockSteps' = clockSteps + 1
  /\ timerDue' = TRUE
  /\ pptRun' = "none"
  /\ UNCHANGED <<config, patternRandom, crashes, engineVars, dbVars, procVars, settled, removed,
                 sharesIn, sharesOut, priceHist,
                 cashHist>>

\* the process stops at any point and the plugin is started again: handlers in
\* flight are lost, the tables stay, the 'ready' callback reloads the last price
restart ==
  /\ crashes < MaxCrash
  /\ crashes' = crashes + 1
  /\ \E p \in Procs : pc[p] # "idle"
  /\ pc' = [p \in Procs |-> "idle"]
  /\ loc' = [p \in Procs |-> LocInit]
  /\ currentPrice' = bourse_history
  /\ wasMarketOpen' = FALSE
  /\ dailyOpenPrice' = {}
  /\ testNow' = {}
  /\ currentPattern' \in randomPattern
  /\ lastPatternSwitchTime' = now
  /\ \E r \in patternRandom : nextPatternSwitchTime' = now + dwell(r)
  /\ switchClock' = now
  /\ timerDue' = FALSE
  /\ pptRun' = "none"
  /\ UNCHANGED <<config, patternRandom, now, clockSteps, dbVars, settled, removed, sharesIn, sharesOut,
                 priceHist,
                 cashHist>>

\* ==================================================================== Init
\* the state after construction: every user has `cash` times the share price in
\* cash, and the user u1 has `buckets` demand rows of half the share price each
InitDrawn(configs, cash, buckets, holdings, states, draws) ==
  /\ config \in configs
  /\ patternRandom = draws
  /\ now = StartNow
  /\ testNow = {}
  /\ currentPattern \in randomPattern
  /\ lastPatternSwitchTime = now
  /\ \E r \in patternRandom : nextPatternSwitchTime = now + dwell(r)
  /\ switchClock = now
  /\ clockSteps = 0
  /\ crashes = 0
  /\ timerDue = FALSE
  /\ currentPrice \in ToFixed2(config.initialPrice, 100)
  /\ bourse_history = currentPrice
  /\ wasMarketOpen = FALSE
  /\ dailyOpenPrice = {}
  /\ bourse_state \in states
  /\ bourse_pending = {}
  /\ bourse_holding \in holdings
  /\ monetary = [u \in Users |-> cash * currentPrice]
  /\ monetary_bank_int = {[id |-> i, uid |-> "u1", amount |-> currentPrice \div 2] : i \in 1..buckets}
  /\ nextId = 1
  /\ pc = [p \in Procs |-> "idle"]
  /\ loc = [p \in Procs |-> LocInit]
  /\ settled = [i \in 1..(MaxOrders + 2) |-> 0]
  /\ removed = {}
  /\ sharesIn = [u \in Users |-> IF u \in DOMAIN bourse_holding THEN bourse_holding[u].amount ELSE 0]
  /\ sharesOut = [u \in Users |-> 0]
  /\ cashHist = [u \in Users |-> [ordered |-> 0, credited |-> 0, bought |-> 0]]
  /\ pptRun = "none"
  /\ cyclePrice = 0
  /\ rolled = ""
  /\ tickBase = <<>>

\* the runs in which every Math.random() of the pattern code returns 0
InitState(configs, cash, buckets, holdings, states) ==
  InitDrawn(configs, cash, buckets, holdings, states, {0})

\* no share is held
InitFunds(configs, cash, buckets) == InitState(configs, cash, buckets, {EmptyTable}, {{}})

\* no monetary_bank_int table (or no row in it)
InitWith(configs) == InitFunds(configs, MaxCash, 0)

stockBuy(p, users) ==
  \/ \E u \in users, amount \in 1..MaxShares : buyStart(p, u, amount)
  \/ payGetCash(p)
  \/ payChangeGet(p)
  \/ payChangeSet(p)

stockSell(p, users) ==
  \/ \E u \in users, amount \in 1..MaxShares : sellStart(p, u, amount)
  \/ sellGetHolding(p)
  \/ sellPutHolding(p)

queueOrder(p) == queueGet(p) \/ queueCreate(p)

\* ========================================================== specifications
solo(p) == \A q \in Procs \ {p} : pc[q] = "idle"

\* Spec: the interval tick and one trader on one account
Init == InitWith({CfgNoFreeze, CfgFreeze})

Next ==
  \/ tick("t1")
  \/ updatePrice("t1", Drift)
  \/ \E p \in {"t1", "h1"} : processPendingTransactions(p)
  \/ stockBuy("h1", {"u1"})
  \/ stockSell("h1", {"u1"})
  \/ queueOrder("h1")
  \/ advance({TickMs})

Spec == Init /\ [][Next]_vars

\* SpecTicks: the interval timer, whose callback may start again while an
\* invocation is still running, and one trader
NextTicks ==
  \/ \E p \in Ticks : tick(p)
  \/ \E p \in Ticks : updatePrice(p, Drift)
  \/ \E p \in Ticks \cup {"h1"} : processPendingTransactions(p)
  \/ stockBuy("h1", {"u1"})
  \/ stockSell("h1", {"u1"})
  \/ queueOrder("h1")
  \/ advance({TickMs})

SpecTicks == InitWith({CfgFreeze}) /\ [][NextTicks]_vars

\* SpecTraders: two command handlers running concurrently on the same account
NextTraders ==
  \/ \E p \in Handlers : stockBuy(p, {"u1"})
  \/ \E p \in Handlers : stockSell(p, {"u1"})
  \/ \E p \in Handlers : queueOrder(p)
  \/ \E p \in Handlers : processPendingTransactions(p)

SpecTraders == Init /\ [][NextTraders]_vars

\* SpecSeq: the same operations, and direct calls of processPendingTransactions,
\* run one at a time: an operation starts only when no other is in flight
NextSeq ==
  \/ solo("t1") /\ (tick("t1") \/ updatePrice("t1", Drift) \/ processPendingTransactions("t1"))
  \/ solo("h1") /\ (stockBuy("h1", {"u1"}) \/ stockSell("h1", {"u1"}) \/ queueOrder("h1")
                    \/ processPendingTransactions("h1"))
  \/ solo("m1") /\ (pptCall("m1") \/ processPendingTransactions("m1"))
  \/ advance({TickMs})

SpecSeq == Init /\ [][NextSeq]_vars

\* SpecCrash: SpecSeq with the process stopping at any point and starting again
NextCrash == NextSeq \/ restart

SpecCrash == Init /\ [][NextCrash]_vars

\* SpecPrice: the price engine under the interval tick, with the clock moving by
\* intervals and days and the administrator switching the market, one invocation
\* at a time; no order is placed, so processPendingTransactions always finds an
\* empty table
NextPrice ==
  \/ solo("t1") /\ (tick("t1") \/ updatePrice("t1", Returns) \/ pptGet("t1"))
  \/ solo("a1") /\ adminMarket("a1")
  \/ advance({TickMs, DayMs})

SpecPrice == InitWith({CfgPenny, CfgSubFloor}) /\ [][NextPrice]_vars

\* SpecCycle: the three ways a cycle comes into being: the tick's createAutoState,
\* stock.control and bourse.admin.market, one invocation at a time, with cycles
\* expiring as the clock moves by days
NextCycle ==
  \/ solo("t1") /\ (tick("t1") \/ updatePrice("t1", Drift) \/ pptGet("t1"))
  \/ solo("a1") /\ (stockControl("a1") \/ adminMarket("a1"))
  \/ advance({DayMs})

SpecCycle == InitWith({CfgPenny}) /\ [][NextCycle]_vars

\* SpecPay: two concurrent stock.buy of a user whose cash covers one share and
\* whose bank demand rows cover the rest; orders freeze, nothing is settled
NextPay ==
  \/ \E p \in Handlers, amount \in 1..MaxShares : buyStart(p, "u1", amount)
  \/ \E p \in Handlers : pay(p)
  \/ \E p \in Handlers : queueOrder(p)

SpecPay == InitFunds({CfgFreeze}, 1, MaxBuckets) /\ [][NextPay]_vars

\* SpecMarket: one trader placing frozen buys, the interval tick, and the
\* administrator opening and closing the market, one invocation at a time
NextMarket ==
  \/ solo("t1") /\ (tick("t1") \/ updatePrice("t1", Drift) \/ processPendingTransactions("t1"))
  \/ solo("h1") /\ (stockBuy("h1", {"u1"}) \/ queueOrder("h1"))
  \/ solo("a1") /\ adminMarket("a1")
  \/ advance({TickMs})

SpecMarket == InitWith({CfgFreeze}) /\ [][NextMarket]_vars

\* SpecFreeze: SpecSeq under configurations that put the notional below, between
\* and above the freeze bounds, with no freeze, and with minFreezeTime above
\* maxFreezeTime
SpecFreeze == InitWith({CfgNoFreeze, CfgFreeze, CfgWide, CfgMinOverMax}) /\ [][NextSeq]_vars

\* SpecQueue: buys of two accounts and sells of one with a freeze, and the tick at a
\* price that stays where it is, one invocation at a time, the clock moving
\* between invocations
NextQueue ==
  \/ solo("t1") /\ (tick("t1") \/ updatePrice("t1", {0}) \/ processPendingTransactions("t1"))
  \/ solo("h1") /\ (stockBuy("h1", Users) \/ stockSell("h1", {"u1"}) \/ queueOrder("h1"))
  \/ (\A p \in Procs : pc[p] = "idle") /\ advance({TickMs})

SpecQueue == InitWith({CfgFreeze}) /\ [][NextQueue]_vars

\* SpecSplit: buys and sells of one account at a price that stays where it is,
\* under configurations where the freeze of a notional is capped, raised, or not
\* a whole number of milliseconds
NextSplit ==
  \/ solo("t1") /\ (tick("t1") \/ updatePrice("t1", {0}) \/ processPendingTransactions("t1"))
  \/ solo("h1") /\ (stockBuy("h1", {"u1"}) \/ stockSell("h1", {"u1"}) \/ queueOrder("h1"))
  \/ advance({TickMs})

SpecSplit == InitWith({CfgFreeze, CfgWide, CfgOdd}) /\ [][NextSplit]_vars

\* the holdings u1 may start with: three shares whose cost basis is not a whole
\* number of cents a share (rounded down, rounded up), and two shares at 1200.00
SellHoldings ==
  {[u \in {"u1"} |-> [amount |-> 3, totalCost |-> 100000]],
   [u \in {"u1"} |-> [amount |-> 3, totalCost |-> 200000]],
   [u \in {"u1"} |-> [amount |-> 2, totalCost |-> 240000]]}

\* SpecSell: u1 holds shares from the start and sells them with no freeze, one
\* invocation at a time, while the tick moves the price
NextSell ==
  \/ solo("t1") /\ (tick("t1") \/ updatePrice("t1", Drift) \/ pptGet("t1"))
  \/ solo("h1") /\ (stockSell("h1", {"u1"}) \/ queueOrder("h1") \/ processPendingTransactions("h1"))
  \/ advance({TickMs})

SpecSell == InitState({CfgNoFreeze}, MaxCash, 0, SellHoldings, {{}}) /\ [][NextSell]_vars

\* SpecRecord: the interval tick running concurrently with stock.control (the
\* current price as target, for 12 hours) and bourse.admin.market, with cycles
\* expiring as the clock moves by days
NextRecord ==
  \/ tick("t1")
  \/ updatePrice("t1", {0})
  \/ pptGet("t1")
  \/ controlStart("a1", currentPrice * 100, 12) \/ controlGet("a1") \/ controlPut("a1")
  \/ adminMarket("a1")
  \/ pc["a1"] = "idle" /\ advance({DayMs})

SpecRecord == InitWith({CfgPenny}) /\ [][NextRecord]_vars

\* SpecShut: one trader placing frozen buys and the interval tick, one invocation
\* at a time, the clock moving by one tick or past closeHour; the ticks leave
\* the price where it is
NextShut ==
  \/ solo("t1") /\ (tick("t1") \/ updatePrice("t1", {0}) \/ processPendingTransactions("t1"))
  \/ solo("h1") /\ (stockBuy("h1", {"u1"}) \/ queueOrder("h1"))
  \/ advance({TickMs, 14 * HourMs})

SpecShut == InitWith({CfgFreeze}) /\ [][NextShut]_vars

\* SpecFault: as SpecSell, and the write of the monetary table can fail
NextFault ==
  \/ NextSell
  \/ solo("h1") /\ pptChangeFail("h1")

SpecFault == InitState({CfgNoFreeze}, MaxCash, 0, SellHoldings, {{}}) /\ [][NextFault]_vars

\* a macro_state row left by an earlier write, with what it has of its timestamps
partialState(lastCycleStart, endTime) ==
  [lastCycleStart |-> lastCycleStart, startPrice |-> 1200 * 10000, targetPrice |-> 1200 * 10000,
   mode |-> "auto", endTime |-> endTime, marketOpenStatus |-> ""]

\* the rows the plugin may find: no cycle start, no end, neither
PartialStates ==
  {{partialState(0, StartNow + DayMs)},
   {partialState(StartNow - DayMs, 0)},
   {partialState(0, 0)}}

\* SpecRepair: the tick starts from a macro_state row that lacks a timestamp,
\* with the clock moving by intervals and days
NextRepair ==
  \/ tick("t1")
  \/ updatePrice("t1", Returns)
  \/ pptGet("t1")
  \/ advance({TickMs, DayMs})

SpecRepair == InitState({CfgFreeze}, MaxCash, 0, {EmptyTable}, PartialStates) /\ [][NextRepair]_vars

\* the clock moves past closeHour, or into the weekend
ClosingSteps == {14 * HourMs, 5 * DayMs}

\* SpecClock: the tick under a forced-open, a forced-shut and an automatic
\* configuration, with the administrator switching the market and the clock
\* leaving and entering the trading hours, one invocation at a time
NextClock ==
  \/ solo("t1") /\ (tick("t1") \/ updatePrice("t1", {0}) \/ pptGet("t1"))
  \/ solo("a1") /\ adminMarket("a1")
  \/ advance(ClosingSteps)

SpecClock == InitWith({CfgNoFreeze, CfgFreeze, CfgClosed}) /\ [][NextClock]_vars

\* SpecThaw: SpecCycle from an initial price above the price floor and from one
\* below it, with stock.control also given a negative number of hours
NextThaw ==
  \/ NextCycle
  \/ solo("a1") /\ \E pct \in ControlPercents : controlStart("a1", currentPrice * pct, -12)

SpecThaw == InitWith({CfgPenny, CfgSubFloorOpen}) /\ [][NextThaw]_vars

\* the <amount:number> arguments tried, in tenths of a share: negative, zero,
\* fractions, whole numbers
ShareArgs == {-10, 0, 5, 15} \cup {10 * n : n \in 1..MaxShares}

\* SpecReject: one trader who holds two shares, the cash for one share and
\* demand rows of half a share each sends stock.buy and stock.sell with any
\* argument, the administrator sends stock.control and switches the
\* market, one invocation at a time; no tick runs, so orders stay pending
NextReject ==
  \/ solo("h1") /\ (\/ \E arg \in ShareArgs : buyArg("h1", "u1", arg)
                    \/ \E arg \in ShareArgs : sellArg("h1", "u1", arg)
                    \/ payGetCash("h1") \/ payGetBank("h1") \/ payChangeGet("h1")
                    \/ payChangeSet("h1") \/ bankSelect("h1") \/ bankPut("h1")
                    \/ sellGetHolding("h1") \/ sellPutHolding("h1")
                    \/ queueOrder("h1"))
  \/ solo("a1") /\ (\/ \E pct \in {-100, 0, 100} : controlStart("a1", currentPrice * pct, 0)
                    \/ controlGet("a1") \/ controlPut("a1")
                    \/ adminMarket("a1"))

SpecReject ==
  /\ InitState({CfgFreeze}, 1, MaxBuckets, {[u \in {"u1"} |-> [amount |-> 2, totalCost |-> 240000]]}, {{}})
  /\ [][NextReject]_vars

\* SpecDebit: one trader with the cash for one share and demand rows of half a
\* share each buys while the tick moves the price and settles, one invocation
\* at a time
NextDebit ==
  \/ solo("t1") /\ (tick("t1") \/ updatePrice("t1", Drift) \/ processPendingTransactions("t1"))
  \/ solo("h1") /\ (\/ \E amount \in 1..MaxShares : buyStart("h1", "u1", amount)
                    \/ payGetCash("h1") \/ payGetBank("h1") \/ payChangeGet("h1")
                    \/ payChangeSet("h1") \/ bankSelect("h1") \/ bankPut("h1")
                    \/ queueOrder("h1"))
  \/ advance({TickMs})

SpecDebit == InitFunds({CfgFreeze}, 1, MaxBuckets) /\ [][NextDebit]_vars

\* SpecOverride: the interval tick and stock.control running concurrently, with
\* cycles expiring as the clock moves by days between two commands; no order is
\* placed
NextOverride ==
  \/ tick("t1")
  \/ updatePrice("t1", {0})
  \/ pptGet("t1")
  \/ stockControl("a1")
  \/ pc["a1"] = "idle" /\ advance({DayMs})

SpecOverride == InitWith({CfgPenny}) /\ [][NextOverride]_vars

\* SpecPattern: the K-line pattern under the interval tick, bourse.admin.market
\* and stock.pattern, with two values of Math.random(): one that makes a dwell
\* of 1.5 hours (0.10), and the highest (0.99)
NextPattern ==
  \/ tick("t1")
  \/ updatePrice("t1", {0})
  \/ pptGet("t1")
  \/ solo("a1") /\ adminMarket("a1")
  \/ solo("a1") /\ stockPattern("a1")
  \/ pc["a1"] = "idle" /\ advance({HourMs, DayMs})

SpecPattern ==
  InitDrawn({CfgPenny}, MaxCash, 0, {EmptyTable}, {{}}, {10, 99}) /\ [][NextPattern]_vars

\* SpecTest: the interval tick and bourse.test.run running concurrently, the
\* development test commands being switched on or off, every dwell drawn being
\* 1.5 hours
NextTest ==
  \/ tick("t1")
  \/ updatePrice("t1", {0})
  \/ pptGet("t1")
  \/ testRun("a1")
  \/ updatePrice("a1", {0})
  \/ pc["a1"] = "idle" /\ advance({TickMs})

SpecTest ==
  InitDrawn({CfgDebug, CfgPenny}, MaxCash, 0, {EmptyTable}, {{}}, {10}) /\ [][NextTest]_vars

\* ================================================================== claims
held(u) == IF u \in DOMAIN bourse_holding THEN bourse_holding[u].amount ELSE 0

\* C1: every matured order is settled exactly once and then deleted, also when
\* processPendingTransactions runs concurrently with itself: no order's effect
\* is applied twice, and a deleted order's effect was applied once.
C1_SettledExactlyOnce ==
  \A i \in DOMAIN settled : settled[i] <= 1 /\ (i \in removed => settled[i] = 1)

\* C2: processPendingTransactions is idempotent: a call that follows a completed
\* call, with no clock step and no order placed in between, finds nothing to
\* settle and changes no holding, no cash balance and no pending order.
C2_SecondCallNoOp ==
  [][\A p \in Procs :
       (pptRun # "none" /\ pc[p] = "ppt_get" /\ pc'[p] # "ppt_get")
         => (pc'[p] \in {"idle", "tick_prune"}
             /\ UNCHANGED <<bourse_holding, monetary, bourse_pending, settled>>)]_vars

\* a second call has returned after a first call that settled an order
C2_Witness == pptRun = "repeat" /\ \E i \in removed : settled[i] = 1

\* C3: an order is destroyed atomically with its settlement, also across a
\* stop and restart of the process: every order that was deleted had its effect
\* applied exactly once.
C3_OnceAcrossRestart == crashes > 0 => \A i \in removed : settled[i] = 1

\* C4: any two pending orders of the same account and side have non-overlapping
\* [startTime, endTime) windows.
C4_NoOverlap ==
  \A r1, r2 \in bourse_pending :
    (r1.id # r2.id /\ r1.userId = r2.userId /\ r1.type = r2.type)
      => ~(r1.startTime < r2.endTime /\ r2.startTime < r1.endTime)

\* C8: at most one invocation of the tick is running at any time.
C8_TickNeverOverlaps == ~(pc["t1"] # "idle" /\ pc["t2"] # "idle")

\* C9: holding mutations of one account are serialized: once every handler has
\* returned, the shares held are what any sequential order of the settlements
\* and sell placements that took effect leaves, delivered minus sold.
\* (Runs in which an order is settled twice are left to C1.)
C9_HoldingSerialized ==
  ((\A p \in Procs : pc[p] = "idle") /\ (\A i \in DOMAIN settled : settled[i] <= 1))
    => \A u \in Users : held(u) = sharesIn[u] - sharesOut[u]

\* C10: the shares in an account's accepted sell orders never exceed the shares
\* delivered to that account by matured buys.
C10_NoOversell == \A u \in Users : sharesOut[u] <= sharesIn[u]

\* the limits (P4) of the last price update, from its basePrice and dayBase
lastUpper == Min((tickBase[1] * 3) \div 2, (tickBase[2] * 13) \div 10)
lastLower == Max(tickBase[1] \div 2, (tickBase[2] * 7) \div 10)

\* C5 as claimed: after every tick lowerLimit <= currentPrice <= upperLimit,
\* including after the price floor and the 2-decimal rounding.
C5_WithinLimits ==
  tickBase # <<>> => (lastLower <= currentPrice * 100 /\ currentPrice * 100 <= lastUpper)

\* C5 as amended: after every tick currentPrice is within half a cent of the
\* band, except that the floor 1.00 applied after the clamp (and the lower limit,
\* where it lies above the upper one) can put it above upperLimit.
C5_WithinRoundedLimits ==
  tickBase # <<>> =>
    /\ lastLower - 50 <= currentPrice * 100
    /\ currentPrice * 100 <= Max(Max(lastUpper, lastLower), PriceFloor * 100) + 50

\* a tick has put the price on the upper limit, rounded up past it
C5_Witness ==
  /\ tickBase # <<>>
  /\ currentPrice * 100 > lastUpper
  /\ lastUpper >= PriceFloor * 100
  /\ pc["t1"] = "up_history"

\* C6: the targetPrice of every persisted cycle lies within [0.5, 1.5] times the
\* price that was current when the cycle was made up.
C6_TargetWithinHalf ==
  \A s \in bourse_state :
    cyclePrice * 50 <= s.targetPrice /\ s.targetPrice <= cyclePrice * 150

\* stock.control has stored a target that it had to move to the edge of the band
C6_Witness ==
  /\ \E s \in bourse_state : s.mode = "manual" /\ s.targetPrice = cyclePrice * 150
  /\ cyclePrice # currentPrice

\* C7: a tick that finds now > endTime, whatever the mode, replaces the cycle by
\* a fresh auto cycle with startPrice = currentPrice and endTime = now + 168h,
\* and moves the price under that cycle only.
C7_ExpiredCycleRollsForward ==
  [][\A p \in Ticks :
       /\ (pc[p] = "up_getState" /\ pc'[p] # "up_getState"
           /\ \E s \in bourse_state : now > s.endTime)
            => /\ pc'[p] = "up_putState"
               /\ \A n \in loc'[p].newState :
                    /\ n.mode = "auto"
                    /\ n.startPrice = currentPrice * 100
                    /\ n.lastCycleStart = now
                    /\ n.endTime = now + 168 * 3600000
       /\ (pc[p] = "up_putState" /\ pc'[p] = "up_history")
            => \A s \in bourse_state' : \E n \in loc[p].newState :
                 /\ s.mode = "auto"
                 /\ s.startPrice = n.startPrice
                 /\ s.targetPrice = n.targetPrice
                 /\ s.lastCycleStart = n.lastCycleStart
                 /\ s.endTime = n.endTime]_vars

\* a tick has replaced an expired manual cycle by an auto cycle
C7_Witness == rolled = "manual" /\ \E s \in bourse_state : s.mode = "auto" /\ s.endTime > now


\* the cash every user starts with when there is no bank row (cents)
cash0 == MaxCash * (config.initialPrice \div 100)

\* C11: a buy is paid when it is placed and delivered only at maturity: an order
\* whose endTime is in the future has had no effect on Holding or cash, the
\* Holding holds the shares of settled buys only, and the cash has been debited
\* the cost of every buy order that exists (and credited settled sells only).
C11_PaidAtPlacementSettledAtMaturity ==
  /\ \A r \in bourse_pending : r.endTime > now => settled[r.id] = 0
  /\ \A u \in Users :
       /\ held(u) = sharesIn[u] - sharesOut[u]
       /\ monetary[u] <= cash0 - cashHist[u].ordered + cashHist[u].credited
       /\ (\A p \in Procs : pc[p] = "idle")
            => monetary[u] = cash0 - cashHist[u].ordered + cashHist[u].credited

\* a paid buy order is waiting for its endTime, and its shares are not held
C11_Witness ==
  /\ \A p \in Procs : pc[p] = "idle"
  /\ \E r \in bourse_pending :
       /\ r.type = "buy" /\ r.endTime > now /\ settled[r.id] = 0
       /\ monetary[r.userId] = cash0 - r.cost
       /\ held(r.userId) = 0


\* what the user u1 starts with under SpecPay: one share price in cash and
\* MaxBuckets demand rows of half a share price (cents)
funds0 == (config.initialPrice \div 100) + MaxBuckets * ((config.initialPrice \div 100) \div 2)

\* C12: a failed payment leaves the balances as they were: once every handler
\* has returned, cash plus demand rows are short of their initial total by no
\* more than the cost of the orders that were paid for and created.
C12_FailedPaymentRestores ==
  (\A p \in Procs : pc[p] = "idle")
    => monetary["u1"] + bankDemandOf("u1") >= funds0 - cashHist["u1"].ordered

\* C13: the freeze window is the only gate on settlement: once the tick that came
\* due has run to its end, whatever the market's open or closed state, no order
\* whose endTime has passed is still pending.
C13_MaturedSettledByNextTick ==
  (clockSteps > 0 /\ ~timerDue /\ \A p \in Procs : pc[p] = "idle") => matured(now) = {}

\* the freeze times (ms) of the orders that exist or are about to be created
freezes ==
  {r.endTime - r.startTime : r \in bourse_pending}
    \cup {loc[p].freezeMs : p \in {q \in Procs : pc[q] \in {"queue_get", "queue_create"}}}

\* C14 as claimed: minFreezeTime <= freezeMinutes <= maxFreezeTime for every
\* configuration with maxFreezeTime > 0, and freezeMinutes = 0 with
\* maxFreezeTime = 0.
C14_FreezeWithinMinMax ==
  \A f \in freezes :
    IF config.maxFreezeTime > 0
    THEN config.minFreezeTime * MinuteMs <= f /\ f <= config.maxFreezeTime * MinuteMs
    ELSE f = 0

\* C14 as amended: the lower bound is applied last, so minFreezeTime <=
\* freezeMinutes <= max(minFreezeTime, maxFreezeTime) with maxFreezeTime > 0,
\* and freezeMinutes = 0 with maxFreezeTime = 0.
C14_FreezeMinFirst ==
  \A f \in freezes :
    IF config.maxFreezeTime > 0
    THEN /\ config.minFreezeTime * MinuteMs <= f
         /\ f <= Max(config.minFreezeTime, config.maxFreezeTime) * MinuteMs
    ELSE f = 0

\* an order whose notional asks for more than maxFreezeTime is frozen for
\* maxFreezeTime, under a configuration with minFreezeTime < maxFreezeTime
C14_Witness ==
  /\ config.minFreezeTime < config.maxFreezeTime
  /\ \E r \in bourse_pending :
       /\ r.cost * 600 > config.maxFreezeTime * MinuteMs * config.freezeCostPerMinute
       /\ r.endTime - r.startTime = config.maxFreezeTime * MinuteMs

\* the endTimes still ahead among the pending orders of account u and side type
aheadOf(u, type) ==
  {r.endTime : r \in {q \in bourse_pending : q.userId = u /\ q.type = type /\ q.endTime > now}}

RECURSIVE sumAmount(_)
sumAmount(S) ==
  IF S = {} THEN 0 ELSE LET r == CHOOSE x \in S : TRUE IN r.amount + sumAmount(S \ {r})

\* the pending orders placed from r on, on r's account and side
splitFrom(r) ==
  {q \in bourse_pending : q.userId = r.userId /\ q.type = r.type /\ q.id >= r.id}

\* the last endTime of the orders in S falls short of the endTime of one order
\* of their total amount, placed when r was, by no more than slack ms
splitCovers(r, S, slack) ==
  (\A q \in S : q.price = r.price)
    => \E q \in S : q.endTime + slack >= r.startTime + freezeMs(sumAmount(S) * r.price)

\* C16 as claimed: at a fixed price, consecutive same-side orders of an account
\* end no earlier than a single order of their total amount placed at the moment
\* of the first would.
C16_SplitNeverShorter ==
  \A r \in bourse_pending : splitCovers(r, splitFrom(r), 0)

\* C16 as amended: they end no earlier than the single order would, less one
\* millisecond for each order after the first (every endTime is cut to whole ms).
C16_SplitShorterByRounding ==
  \A r \in bourse_pending : splitCovers(r, splitFrom(r), Cardinality(splitFrom(r)) - 1)

\* two orders of one share each are queued one behind the other, and end later
\* than one order of two shares that is capped at maxFreezeTime
C16_Witness ==
  \E r, q \in bourse_pending :
    /\ q.userId = r.userId /\ q.type = r.type /\ q.id > r.id /\ q.price = r.price
    /\ q.startTime = r.endTime
    /\ q.endTime > r.startTime + freezeMs((r.amount + q.amount) * r.price)

\* the day's base (P4) stock.control reads: dailyOpenPrice, or the current
\* price when there is none
controlDayBase == IF dailyOpenPrice = {} THEN currentPrice * 100 ELSE 100 * (CHOOSE d \in dailyOpenPrice : TRUE)

\* stock.control computes the manual cycle with the target moved into
\* [lower, upper] (P4), and stores that cycle
controlStores(lower, upper) ==
  \A p \in Admins :
    /\ (pc[p] = "idle" /\ pc'[p] = "ctl_get")
         => \A n \in loc'[p].newState :
              /\ n.startPrice = currentPrice * 100
              /\ n.mode = "manual"
              /\ n.targetPrice = (IF loc'[p].price < lower THEN lower
                                  ELSE IF loc'[p].price > upper THEN upper ELSE loc'[p].price)
    /\ (pc[p] = "ctl_put" /\ pc'[p] = "idle")
         => \A s \in bourse_state' : \A n \in loc[p].newState :
              s.targetPrice = n.targetPrice /\ s.startPrice = n.startPrice /\ s.mode = "manual"

totalCostOf(u) == IF u \in DOMAIN bourse_holding THEN bourse_holding[u].totalCost ELSE 0

\* C18: with maxFreezeTime = 0 a buy is settled before it returns: once every
\* handler has returned no order is pending, the cash has been debited the cost
\* n x p of every buy (and credited every sell), the Holding has the shares of
\* every buy less those sold, and, for an account that sold nothing, a
\* totalCost of the sum of the buys' n x p.
C18_ZeroFreezeSettlesAtOnce ==
  (config.maxFreezeTime = 0 /\ \A p \in Procs : pc[p] = "idle")
    => /\ bourse_pending = {}
       /\ \A u \in Users :
            /\ monetary[u] = cash0 - cashHist[u].ordered + cashHist[u].credited
            /\ held(u) = cashHist[u].bought - sharesOut[u]
            /\ sharesOut[u] = 0 => totalCostOf(u) = cashHist[u].ordered

\* the stock.sell handlers that have computed their receipt
selling == {p \in Handlers : loc[p].type = "sell" /\ pc[p] \in {"queue_get", "queue_create"}}

\* C19 as claimed: profit = n x p - n x (C / S) and profit% = profit over
\* n x (C / S), each rounded to 2 decimals, for a sell of n at p from a Holding
\* of S shares with totalCost C > 0; the Holding's totalCost is reduced by
\* n x (C / S).
C19_ProfitOnExactAverage ==
  \A p \in selling :
    LET n == loc[p].amount
        S == loc[p].currentAmount
        C == loc[p].existingTotalCost
    IN  /\ loc[p].profit \in ToFixed2Signed(loc[p].cost * S - n * C, S)
        /\ loc[p].profitPercent \in Percent2(loc[p].profit * S, n * C)
        /\ n < S => totalCostOf(loc[p].userId) \in ToFixed2(C * S - n * C, S)

\* C19 as amended: the average C / S is rounded to 2 decimals first: with a =
\* round2(C / S) and soldCost = n x a, profit = n x p - soldCost, profit% =
\* round2(100 x profit / soldCost), and the Holding's totalCost is reduced by
\* soldCost (the row is removed when n = S).
C19_ProfitOnRoundedAverage ==
  \A p \in selling :
    LET n == loc[p].amount
        S == loc[p].currentAmount
        C == loc[p].existingTotalCost
    IN  \E a \in ToFixed2(C, S) :
          /\ loc[p].soldCost = n * a
          /\ loc[p].profit = loc[p].cost - n * a
          /\ loc[p].profitPercent \in Percent2(loc[p].cost - n * a, n * a)
          /\ IF n < S THEN totalCostOf(loc[p].userId) = C - n * a
                      ELSE loc[p].userId \notin DOMAIN bourse_holding

\* two of three shares with a cost basis of 2000.00 are sold: the average
\* 666.67 a share takes 1333.34 off the cost basis
C19_Witness ==
  \E p \in selling :
    /\ loc[p].amount = 2 /\ loc[p].currentAmount = 3 /\ loc[p].existingTotalCost = 200000
    /\ loc[p].soldCost = 133334
    /\ totalCostOf(loc[p].userId) = 66666

\* C20: a tick that finds the persisted macro_state without its cycle start or
\* its end time treats it as absent: it makes up a fresh auto cycle with
\* startPrice = currentPrice and endTime = now + 168h, and does not move the
\* price under the incomplete record.
C20_IncompleteStateRegenerated ==
  [][\A p \in Ticks :
       (pc[p] = "up_getState" /\ pc'[p] # "up_getState"
        /\ \E s \in bourse_state : s.lastCycleStart = 0 \/ s.endTime = 0)
         => /\ pc'[p] = "up_putState"
            /\ \A n \in loc'[p].newState :
                 /\ n.mode = "auto"
                 /\ n.startPrice = currentPrice * 100
                 /\ n.endTime = now + WeekHours * HourMs]_vars

\* the administrator's switch as persisted: "open", "close", or "" when there is
\* no row or the row says auto
override ==
  IF \E s \in bourse_state : s.marketOpenStatus = "open" THEN "open"
  ELSE IF \E s \in bourse_state : s.marketOpenStatus = "close" THEN "close"
  ELSE ""

\* Monday to Friday, openHour <= hour < closeHour
inWindow ==
  /\ Day(now) \in 1..5
  /\ config.openHour <= Hour(now) /\ Hour(now) < config.closeHour

\* C21: the market's state is decided in strict order: a configured open or
\* close alone; else a persisted open or close of the administrator; else, with
\* both auto or absent, the weekday and the hour window. The tick records what
\* was decided.
C21_OpenByPriority ==
  /\ config.marketStatus = "open" => isMarketOpen
  /\ config.marketStatus = "close" => ~isMarketOpen
  /\ (config.marketStatus = "auto" /\ override = "open") => isMarketOpen
  /\ (config.marketStatus = "auto" /\ override = "close") => ~isMarketOpen
  /\ (config.marketStatus = "auto" /\ override = "") => (isMarketOpen <=> inWindow)
  /\ (pc["t1"] \in {"up_getState", "up_putState", "up_history", "ppt_get", "tick_prune"})
       => wasMarketOpen

\* on a weekend the tick found the market open by the administrator's switch,
\* under an automatic configuration
C21_Witness ==
  /\ config.marketStatus = "auto" /\ override = "open"
  /\ Day(now) \in {0, 6}
  /\ pc["t1"] = "up_history"

\* C22: whenever the plugin takes note that the market went from closed to open
\* (wasMarketOpen turns true), in the tick or in bourse.admin.market,
\* dailyOpenPrice is set to the current price.
C22_OpenSnapshotsDailyPrice ==
  [][(~wasMarketOpen /\ wasMarketOpen') => dailyOpenPrice' = {currentPrice}]_vars

\* C23: after a manual cycle has expired and the tick has put an auto cycle in
\* its place, the price is not frozen: whenever the next tick is to move the
\* price under that cycle, some outcome of the tick differs from currentPrice.
C23_NotFrozenAfterManual ==
  (rolled = "manual" /\ pc["t1"] = "idle" /\ ~needNewState(now))
    => \A s \in bourse_state :
         s.mode = "auto" => newPrices(s.startPrice, Returns) # {currentPrice}

\* the command that handler state l belongs to was sent with an invalid argument
invalidArg(l) ==
  \/ l.type \in {"buy", "sell"} /\ ~(l.arg > 0 /\ l.arg % 10 = 0)
  \/ l.type = "control" /\ l.price <= 0

\* C24: validation errors are rejected before any state mutation: the step that
\* takes in a stock.buy or stock.sell with a non-positive or non-integer share
\* count, or a stock.control with a non-positive price, ends the command with
\* the validation refusal and changes no cash, demand row, holding, pending
\* order or macro state.
C24_InvalidRefusedUnchanged ==
  [][\A p \in Handlers \cup Admins :
       (pc[p] = "idle" /\ <<pc'[p], loc'[p]>> # <<pc[p], loc[p]>> /\ invalidArg(loc'[p]))
         => /\ pc'[p] = "idle"
            /\ loc'[p].reply \in {"invalidBuyAmount", "invalidSellAmount", "invalidTargetPrice"}
            /\ UNCHANGED <<monetary, monetary_bank_int, bourse_holding, bourse_pending,
                           bourse_state>>]_vars

\* a fractional share count has been refused while an order is pending, and a
\* negative target price while a cycle exists
C24_Witness ==
  \/ /\ loc["h1"].reply = "invalidBuyAmount" /\ loc["h1"].arg = 15
     /\ bourse_pending # {} /\ monetary["u1"] + bankDemandOf("u1") > 0
  \/ /\ loc["a1"].reply = "invalidTargetPrice" /\ loc["a1"].price < 0
     /\ bourse_state # {}

\* C25: insufficient resources are rejected before mutation: a stock.buy whose
\* cost exceeds cash plus demand rows ends at pay's check with the
\* insufficient-funds refusal, a stock.sell of more shares than are held ends at
\* the holding check with its refusal, and from the start of the command to the
\* refusal no cash, demand row, holding or pending order has changed.
C25_ShortRefusedUnchanged ==
  [][\A p \in Handlers :
       LET u == loc[p].userId
           moved == pc'[p] # pc[p]
           atFundsCheck == pc[p] = "pay_getBank" \/ (pc[p] = "pay_getCash" /\ monetary_bank_int = {})
           refused(reply) == pc'[p] = "idle" /\ loc'[p].reply = reply
           untouched == UNCHANGED <<monetary, monetary_bank_int, bourse_holding, bourse_pending>>
       IN  /\ (moved /\ atFundsCheck /\ monetary[u] + bankDemandOf(u) < loc[p].cost)
                => (refused("insufficientFunds") /\ untouched)
           /\ (moved /\ pc[p] = "sell_getHolding" /\ held(u) < loc[p].amount)
                => (refused("insufficientHolding") /\ untouched)
           /\ (moved /\ loc'[p].reply \in {"insufficientFunds", "insufficientHolding"})
                => (pc[p] \in {"pay_getCash", "pay_getBank", "sell_getHolding"} /\ untouched)
           /\ (moved /\ pc'[p] \in {"pay_getCash", "pay_getBank", "sell_getHolding"})
                => untouched]_vars

\* a buy was refused for lack of funds while the account still has cash or
\* demand rows, or a sell for lack of shares while shares are held
C25_Witness ==
  \/ /\ loc["h1"].reply = "insufficientFunds"
     /\ monetary["u1"] + bankDemandOf("u1") > 0 /\ bourse_pending # {}
  \/ /\ loc["h1"].reply = "insufficientHolding" /\ held("u1") > 0

\* the market is closed: by the configuration, else by the administrator's
\* switch, else by the weekday and the hour
marketShut ==
  \/ config.marketStatus = "close"
  \/ config.marketStatus = "auto" /\ override = "close"
  \/ config.marketStatus = "auto" /\ override = "" /\ ~inWindow

\* C26 as claimed: with the market closed every stock.buy and stock.sell is
\* refused with the market-closed reason, which is none of the validation and
\* insufficient-resource refusals, and no order is created and no cash or
\* holding changed.
C26_ClosedRefusedDistinct ==
  [][\A p \in Handlers :
       LET sends == /\ pc[p] = "idle" /\ <<pc'[p], loc'[p]>> # <<pc[p], loc[p]>>
                    /\ loc'[p].type \in {"buy", "sell"}
       IN  (sends /\ marketShut)
             => /\ pc'[p] = "idle"
                /\ loc'[p].reply = "marketClosed"
                /\ UNCHANGED <<bourse_pending, nextId, monetary, monetary_bank_int,
                               bourse_holding>>]_vars

\* C26 as amended: the share count is validated before the market is asked, so
\* the market-closed reason is what a stock.buy or stock.sell with a valid share
\* count gets when the market is closed; no order is created and no cash or
\* holding changed.
C26_ClosedRefusedValid ==
  [][\A p \in Handlers :
       LET sends == /\ pc[p] = "idle" /\ <<pc'[p], loc'[p]>> # <<pc[p], loc[p]>>
                    /\ loc'[p].type \in {"buy", "sell"}
       IN  (sends /\ marketShut /\ ~invalidArg(loc'[p]))
             => /\ pc'[p] = "idle"
                /\ loc'[p].reply = "marketClosed"
                /\ UNCHANGED <<bourse_pending, nextId, monetary, monetary_bank_int,
                               bourse_holding>>]_vars

\* a sell of shares that are held, and that an open market would accept, was
\* refused while the administrator keeps the market closed
C26_Witness ==
  /\ marketShut
  /\ loc["h1"].reply = "marketClosed" /\ loc["h1"].type = "sell"
  /\ held("u1") * 10 >= loc["h1"].arg

\* C27: every macro state ever persisted has endTime > lastCycleStart: the auto
\* cycles of the tick, the rows of bourse.admin.market, and the manual cycles of
\* stock.control with any hours argument it accepts.
C27_CycleEndsAfterStart ==
  \A s \in bourse_state : s.endTime > s.lastCycleStart

\* C28: the per-account holding cap is enforced: after any sequence of buys
\* and settlements no account holds more shares than maxHoldings.
C28_HoldingWithinCap ==
  \A u \in DOMAIN bourse_holding : bourse_holding[u].amount <= config.maxHoldings

\* C29: a successful payment of cost c debits cash first and the demand rows
\* only for the shortfall, oldest row first, and c in total: once the commands
\* have returned, cash plus demand rows are short of their initial total by
\* exactly the cost of the orders paid for; whenever a demand row has been
\* debited the cash is used up; and the rows left are the newest ones, all of
\* them whole but possibly the oldest.
C29_CashFirstThenOldestRows ==
  LET rows == {r \in monetary_bank_int : r.uid = "u1"}
      whole == (config.initialPrice \div 100) \div 2
  IN  /\ (\A p \in Procs : pc[p] = "idle")
           => monetary["u1"] + bankDemandOf("u1") = funds0 - cashHist["u1"].ordered
      /\ bankDemandOf("u1") < MaxBuckets * whole => monetary["u1"] = 0
      /\ \A r \in rows :
           /\ \A i \in (r.id + 1)..MaxBuckets : \E q \in rows : q.id = i /\ q.amount = whole
           /\ 0 < r.amount /\ r.amount <= whole

\* payments took the cash, the oldest demand rows whole and a part of the next
\* row, and their orders were created
C29_Witness ==
  /\ \A p \in Procs : pc[p] = "idle"
  /\ cashHist["u1"].ordered > 0
  /\ monetary["u1"] = 0
  /\ \E r \in monetary_bank_int :
       r.id > 1 /\ 0 < r.amount /\ r.amount < (config.initialPrice \div 100) \div 2

\* C30: every pending order has cost = amount x price, also when a tick changes
\* currentPrice while the order is being placed: the price recorded on the order
\* is the price its cost was computed from.
C30_NotionalIsSharesTimesPrice ==
  \A r \in bourse_pending : r.cost = r.amount * r.price

\* the cycle part of a macro state row
cycleOf(s) == <<s.lastCycleStart, s.startPrice, s.targetPrice, s.endTime, s.mode>>

\* C31: an admin override is never lost: the manual cycle stock.control has
\* stored stays the macro state until it expires or stock.control stores
\* another, also when a tick that read the previous state is running.
C31_OverrideNeverLost ==
  [][\A s \in bourse_state :
       (s.mode = "manual" /\ now <= s.endTime /\ pc["a1"] # "ctl_put")
         => \E n \in bourse_state' : cycleOf(n) = cycleOf(s)]_vars

\* C32: a tick never replaces a macro state whose endTime has not passed:
\* between a cycle's creation and its expiry no step of the tick changes
\* lastCycleStart, startPrice, targetPrice, endTime or mode.
C32_TickKeepsLiveCycle ==
  [][\A p \in Ticks : \A s \in bourse_state :
       (pc'[p] # pc[p] /\ now <= s.endTime)
         => \E n \in bourse_state' : cycleOf(n) = cycleOf(s)]_vars

\* C33: in every reachable state each holding row has amount > 0 and
\* totalCost >= 0: matured buys create the row and add to it, sells take from
\* it, and the row is removed when a sell brings the shares to 0.
C33_HoldingPositive ==
  \A u \in DOMAIN bourse_holding :
    bourse_holding[u].amount > 0 /\ bourse_holding[u].totalCost >= 0

\* the account was delivered shares by a matured buy, has sold shares, and its
\* holding row is gone
C33_Witness ==
  /\ sharesIn["u1"] > 0 /\ sharesOut["u1"] > 0
  /\ "u1" \notin DOMAIN bourse_holding

\* C34: the active pattern id is always an entry of the fixed catalog of 25
\* patterns (8 bullish, 8 bearish, 9 neutral), at start and after every rotation
\* (selector in a tick, open transition, stock.pattern), so the unknown-pattern
\* branch of updatePrice is never taken
C34_PatternInCatalog ==
  /\ Cardinality({kLinePatterns[i][1] : i \in DOMAIN kLinePatterns}) = 25
  /\ Len(patternsByCategory["bullish"]) = 8
  /\ Len(patternsByCategory["bearish"]) = 8
  /\ Len(patternsByCategory["neutral"]) = 9
  /\ \E i \in DOMAIN kLinePatterns : kLinePatterns[i][1] = currentPattern

\* a tick has rotated to the first bearish pattern of the catalog, which with
\* the draws 0.10 and 0.99 only the selector can pick
C34_Witness ==
  /\ currentPattern = "bearish_steady"
  /\ lastPatternSwitchTime > StartNow

\* C35: after every rotation lastSwitch + 1h <= nextSwitch <= lastSwitch + 6h; a
\* price update rotates exactly when its clock has reached nextSwitch or is more
\* than 30h past lastSwitch; so when a price update rotates, at least the dwell
\* chosen at the rotation before has elapsed on its clock since that rotation,
\* and a price update that keeps the pattern runs at most 30h after lastSwitch
C35_DwellBetweenRotations ==
  [][/\ lastPatternSwitchTime' + HourMs <= nextPatternSwitchTime'
     /\ nextPatternSwitchTime' <= lastPatternSwitchTime' + 6 * HourMs
     /\ \A p \in Procs :
          LET t == IF pc[p] = "up_getState" THEN clock ELSE loc[p].tnow
          IN  (pc[p] \in {"up_getState", "up_putState"} /\ pc'[p] = "up_history")
                => IF t >= nextPatternSwitchTime \/ t - lastPatternSwitchTime > 30 * HourMs
                   THEN /\ lastPatternSwitchTime' = now
                        /\ t - switchClock >= nextPatternSwitchTime - lastPatternSwitchTime
                   ELSE /\ UNCHANGED patternVars
                        /\ t - lastPatternSwitchTime <= 30 * HourMs]_vars

C37_SellRemovedOnlyPaid ==
  [][\A r \in bourse_pending :
       (r.type = "sell" /\ r \notin bourse_pending') => settled[r.id] >= 1]_vars

\* C38: under any interleaving of concurrent buys of one account, once every
\* handler has returned the amount gone from the account's cash and demand rows
\* is the sum of the notionals of its accepted buy orders, and the cash balance
\* is never negative
C38_BuysFullyPaid ==
  /\ monetary["u1"] >= 0
  /\ (\A p \in Procs : pc[p] = "idle")
       => funds0 - (monetary["u1"] + bankDemandOf("u1")) = cashHist["u1"].ordered

\* C39: the cycle and the market override are independent parts of the
\* macro_state row: a write of updatePrice or of stock.control leaves the stored
\* marketOpenStatus as it is, and a write of bourse.admin.market to an existing
\* row leaves lastCycleStart, startPrice, targetPrice, endTime and mode as they are
C39_CycleAndOverrideIndependent ==
  [][\A s \in bourse_state : \A n \in bourse_state' :
       /\ cycleOf(n) # cycleOf(s) => n.marketOpenStatus = s.marketOpenStatus
       /\ (\E p \in Procs : pc[p] \in {"up_putState", "ctl_put"} /\ pc'[p] # pc[p])
            => n.marketOpenStatus = s.marketOpenStatus
       /\ (\E p \in Procs : pc[p] = "mkt_put" /\ pc'[p] # pc[p])
            => cycleOf(n) = cycleOf(s)]_vars

\* the market is open by override under an auto cycle that a tick put in the
\* place of an expired manual cycle
C39_Witness ==
  /\ rolled = "manual"
  /\ \E s \in bourse_state :
       s.marketOpenStatus = "open" /\ s.mode = "auto" /\ s.lastCycleStart > StartNow

\* C40: a tick that finds the market closed changes no market or account state:
\* no PricePoint is appended, and currentPrice, the macro_state row, the active
\* pattern, the holdings, the pending orders and the cash are as before it
C40_ClosedTickChangesNothing ==
  [][(timerDue /\ ~timerDue' /\ crashes' = crashes /\ ~isMarketOpen)
       => /\ UNCHANGED <<bourse_history, currentPrice, bourse_state, patternVars>>
          /\ UNCHANGED <<bourse_holding, bourse_pending, monetary, monetary_bank_int>>
          /\ UNCHANGED <<procVars, dailyOpenPrice, orderHist>>]_vars

\* the timer came due after closeHour and the tick has run: the order that
\* matured meanwhile is still pending
C40_Witness ==
  /\ clockSteps > 0 /\ ~timerDue /\ ~isMarketOpen
  /\ \A p \in Procs : pc[p] = "idle"
  /\ \E r \in bourse_pending : r.endTime <= now /\ settled[r.id] = 0

====
